---- MODULE Spec2Model ----
(***************************************************************************)
(* Model of the smart-converter backend gateway (src/server.js, with the   *)
(* failover variant of src/unnamed/part_000): the users / api_keys tables, *)
(* API-key authentication by hash comparison, the metered endpoints, the   *)
(* three streaming endpoints and their SSE event protocol, key issuance    *)
(* and revocation, and the subscription webhooks.                          *)
(*                                                                         *)
(* Node runs every handler on one event loop: the code between two awaits  *)
(* is atomic, so every action below is one such stretch of a handler, from *)
(* the completion of the awaited call to the next await (or the end).      *)
(***************************************************************************)
EXTENDS Integers, Sequences, FiniteSets, TLC

VARIABLES
  users,      \* table users:    name -> [exists, plan, subscription_status, subscription_id]
  api_keys,   \* table api_keys: name -> [exists, api_key, count, last_reset_date]
  today,      \* the calendar date, new Date().toISOString().split('T')[0]
  procs,      \* the handler invocations in flight or just answered, one per slot
  ops,        \* number of requests received so far
  plain,      \* history: name -> the plaintext whose hash was last stored for it
  revoked,    \* history: name -> the plaintext delete-api-key revoked, until reissued
  generated   \* history: the keys crypto.randomBytes has produced so far

vars == <<users, api_keys, today, procs, ops, plain, revoked, generated>>

(***************************************************************************)
(* Bounds of the model.                                                    *)
(***************************************************************************)
MaxDay    == 2      \* dates are 0..MaxDay
MaxOps    == 3      \* requests received per behaviour
MaxChunks == 2      \* fragments one upstream stream yields
ProLimit  == 4      \* plan_limits row of the pro plan (data of the store)
NCalls    == MaxOps \* concurrent metered calls of the no-lost-update scenario

(***************************************************************************)
(* Program constants.                                                      *)
(***************************************************************************)
FreeLimit      == 3   \* lifetime limit of the free plan
BcryptMaxBytes == 72  \* bcrypt reads only the first 72 bytes of its input

Names == {"u1", "u2"}
Slots == {1, 2}
Days  == 0..MaxDay

Min(a, b) == IF a < b THEN a ELSE b

(***************************************************************************)
(* JavaScript values of the request body fields the handlers test.         *)
(***************************************************************************)
Undef  == [t |-> "undefined", s |-> <<>>]
Num    == [t |-> "number", s |-> <<>>]          \* a truthy non-string, such as 5
Str(s) == [t |-> "string", s |-> s]

Falsy(v) == v.t = "undefined" \/ (v.t = "string" /\ v.s = <<>>)

RECURSIVE TrimLeft(_)
TrimLeft(s) == IF s # <<>> /\ Head(s) = " " THEN TrimLeft(Tail(s)) ELSE s

RECURSIVE TrimRight(_)
TrimRight(s) ==
  IF s # <<>> /\ s[Len(s)] = " " THEN TrimRight(SubSeq(s, 1, Len(s) - 1)) ELSE s

Trim(s) == TrimRight(TrimLeft(s))

\* !v || typeof v !== 'string' || v.trim() === ''
NotAString(v) == Falsy(v) \/ v.t # "string" \/ Trim(v.s) = <<>>

(***************************************************************************)
(* Plaintext keys: sequences of characters.                                *)
(***************************************************************************)
Pad71  == [i \in 1..71 |-> "a"]
KLongA == Pad71 \o <<"b", "x">>     \* 73 characters
KLongB == Pad71 \o <<"b", "y">>     \* 73 characters, differs from KLongA in the last
KShort == <<"s", "1">>
KGen1  == <<"g", "1">>              \* 'sk-' + crypto.randomBytes(32).toString('hex')
KGen2  == <<"g", "2">>
NoKey  == <<>>

UserKeys == {KLongA, KLongB, KShort}
GenKeys  == {KGen1, KGen2}

(***************************************************************************)
(* hashApiKey / verifyApiKey: bcrypt digests the first BcryptMaxBytes      *)
(* bytes of the plaintext under a random salt; compare recomputes the      *)
(* digest under the stored salt.  The salt decides nothing here and is     *)
(* left out; the digest is one-way, which the model does not use.          *)
(***************************************************************************)
NullKey == [null |-> TRUE, h |-> <<>>]

Digest(k) == SubSeq(k, 1, Min(Len(k), BcryptMaxBytes))

hashApiKey(apiKey) == [null |-> FALSE, h |-> Digest(apiKey)]

verifyApiKey(plainApiKey, hashedApiKey) ==
  ~hashedApiKey.null /\ Digest(plainApiKey) = hashedApiKey.h

(***************************************************************************)
(* Rows of the two tables.                                                 *)
(***************************************************************************)
NoUser == [exists |-> FALSE, plan |-> "none", subscription_status |-> "none",
           subscription_id |-> "none"]
NoRow  == [exists |-> FALSE, api_key |-> NullKey, count |-> 0, last_reset_date |-> 0]

UserRow(plan, status, sub) ==
  [exists |-> TRUE, plan |-> plan, subscription_status |-> status, subscription_id |-> sub]

KeyRow(secret, count, date) ==
  [exists |-> TRUE, api_key |-> secret, count |-> count, last_reset_date |-> date]

\* table plan_limits: plan -> limit_value
plan_limits(plan) == IF plan = "pro" THEN ProLimit ELSE FreeLimit

(***************************************************************************)
(* findApiKeyRecord: select the api_keys rows with a non-null api_key,     *)
(* inner-joined with users, and return the first row whose hash verifies.  *)
(* The select has no ORDER BY, so with several matching rows the store     *)
(* decides which comes first: Matches is the set it may return from.       *)
(***************************************************************************)
NoRecord == [found |-> FALSE, name |-> "none", plan |-> "none", count |-> 0]

Matches(plainApiKey) ==
  {n \in Names : /\ api_keys[n].exists
                 /\ users[n].exists
                 /\ ~api_keys[n].api_key.null
                 /\ verifyApiKey(plainApiKey, api_keys[n].api_key)}

RecordOf(n) ==
  [found |-> TRUE, name |-> n, plan |-> users[n].plan, count |-> api_keys[n].count]

findApiKeyRecord(plainApiKey) ==
  IF Matches(plainApiKey) = {} THEN {NoRecord}
  ELSE {RecordOf(n) : n \in Matches(plainApiKey)}

(***************************************************************************)
(* increment_api_count(api_name): the stored procedure of the store, run   *)
(* as one transaction.  It looks up the caller's plan and the plan's       *)
(* limit; for the pro plan a count whose last_reset_date is not today      *)
(* counts as 0; at the limit it refuses, otherwise it stores count + 1     *)
(* (and today as the reset date of a pro row) and returns the new count.   *)
(* Yields the call's result and the row as the call leaves it.             *)
(***************************************************************************)
increment_api_count(api_name) ==
  LET row   == api_keys[api_name]
      plan  == users[api_name].plan
      limit == plan_limits(plan)
      eff   == IF plan = "pro" /\ row.last_reset_date # today THEN 0 ELSE row.count
  IN  IF eff >= limit
      THEN [res |-> [success |-> FALSE, count |-> eff, limit |-> limit, remaining |-> 0],
            row |-> row]
      ELSE [res |-> [success |-> TRUE, count |-> eff + 1, limit |-> limit,
                     remaining |-> limit - (eff + 1)],
            row |-> [row EXCEPT !.count = eff + 1,
                                !.last_reset_date = IF plan = "pro" THEN today ELSE @]]

NoResult == [success |-> FALSE, count |-> 0, limit |-> 0, remaining |-> 0]

(***************************************************************************)
(* One handler invocation.  op is the route, pc the await it is suspended  *)
(* at ("done" once the response is complete); the other fields are the     *)
(* handler's locals and what it has written to its response.               *)
(***************************************************************************)
NoResp == [success |-> FALSE, error |-> "none", count |-> 0, limit |-> 0, remaining |-> 0,
           plan |-> "none", availableModels |-> {}, requiredField |-> "none",
           api_key |-> "none", data |-> <<>>, files |-> "none", details |-> {}]

NoBody == [projectType |-> "missing", projectLanguage |-> "missing", files |-> "missing",
           packageJson |-> "missing", userPrompt |-> "missing"]

NoRead == [userExists |-> FALSE, plan |-> "none", rowExists |-> FALSE, hasKey |-> FALSE,
           count |-> 0, last_reset_date |-> 0]

\* an Error object: its status property (0: none) and the words of its message
NoError == [status |-> 0, message |-> <<>>]

IdleProc ==
  [op |-> "idle", pc |-> "idle", name |-> "none", key |-> NoKey, model |-> "undefined",
   uak |-> Undef, endpoint |-> "none", body |-> NoBody, rec |-> NoRecord,
   result |-> NoResult, events |-> <<>>, closed |-> FALSE, status |-> 0,
   resp |-> NoResp, text |-> <<>>, chunks |-> 0, fail |-> "none", read |-> NoRead,
   newKey |-> NoKey, aux |-> "none", headers |-> "none", calls |-> 0, frags |-> <<>>,
   sent |-> <<>>, gone |-> -1, tried |-> <<>>, lastError |-> NoError, thrown |-> NoError]

Free(p) == procs[p].pc \in {"idle", "done"}

\* the handler returns: its locals are gone, what it wrote to the response
\* (and what it had authenticated and been granted) stays on record
Return(pr) ==
  [pr EXCEPT !.pc = "done", !.key = NoKey, !.body = NoBody, !.text = <<>>, !.chunks = 0,
             !.read = NoRead, !.newKey = NoKey, !.frags = <<>>, !.sent = <<>>]

\* res.status(code).json(body): the response is complete
Respond(pr, code, body) == Return([pr EXCEPT !.status = code, !.resp = body])

(***************************************************************************)
(* POST /api/update-count                                                  *)
(***************************************************************************)
\* a variant that counts every arriving call against the first identity
\* before it looks at the body
UpdateCountStartCharged(p, api_key) ==
  /\ Free(p)
  /\ ops < MaxOps
  /\ ops' = ops + 1
  /\ api_keys' = IF api_keys["u1"].exists /\ api_keys["u1"].count < FreeLimit
                 THEN [api_keys EXCEPT !["u1"].count = @ + 1] ELSE api_keys
  /\ LET pr == [IdleProc EXCEPT !.op = "update"]
     IN  procs' = [procs EXCEPT ![p] =
           IF NotAString(api_key)
           THEN Respond([pr EXCEPT !.fail = "validation"], 400,
                        [NoResp EXCEPT !.error = "API key is required"])
           ELSE [pr EXCEPT !.pc = "auth", !.key = Trim(api_key.s)]]
  /\ UNCHANGED <<users, today, plain, revoked, generated>>

\* the request arrives: validation of api_key, then findApiKeyRecord is awaited
UpdateCountStart(p, api_key) ==
  /\ Free(p)
  /\ ops < MaxOps
  /\ ops' = ops + 1
  /\ LET pr == [IdleProc EXCEPT !.op = "update"]
     IN  procs' = [procs EXCEPT ![p] =
           IF NotAString(api_key)
           THEN Respond([pr EXCEPT !.fail = "validation"], 400,
                        [NoResp EXCEPT !.error = "API key is required"])
           ELSE [pr EXCEPT !.pc = "auth", !.key = Trim(api_key.s)]]
  /\ UNCHANGED <<users, api_keys, today, plain, revoked, generated>>

\* a variant that takes a failed lookup for a lookup that found nothing
UpdateCountAuthSwallow(p) ==
  /\ procs[p].op = "update"
  /\ procs[p].pc = "auth"
  /\ \/ procs' = [procs EXCEPT ![p] =
            Respond([@ EXCEPT !.fail = "store"], 401,
                    [NoResp EXCEPT !.error = "Invalid API key"])]
     \/ \E r \in findApiKeyRecord(procs[p].key) :
          procs' = [procs EXCEPT ![p] =
            IF ~r.found
            THEN Respond([@ EXCEPT !.fail = "unknown_key"], 401,
                         [NoResp EXCEPT !.error = "Invalid API key"])
            ELSE [@ EXCEPT !.pc = "rpc", !.rec = r]]
  /\ UNCHANGED <<users, api_keys, today, ops, plain, revoked, generated>>

\* findApiKeyRecord returns or throws; on a record the rpc is awaited
UpdateCountAuth(p) ==
  /\ procs[p].op = "update"
  /\ procs[p].pc = "auth"
  /\ \/ procs' = [procs EXCEPT ![p] =
            Respond([@ EXCEPT !.fail = "store"], 500,
                    [NoResp EXCEPT !.error = "store error"])]
     \/ \E r \in findApiKeyRecord(procs[p].key) :
          procs' = [procs EXCEPT ![p] =
            IF ~r.found
            THEN Respond([@ EXCEPT !.fail = "unknown_key"], 401,
                         [NoResp EXCEPT !.error = "Invalid API key"])
            ELSE [@ EXCEPT !.pc = "rpc", !.rec = r]]
  /\ UNCHANGED <<users, api_keys, today, ops, plain, revoked, generated>>

\* the response of update-count to the result of the rpc
UpdateCountReply(pr, res) ==
  IF ~res.success
  THEN Respond([pr EXCEPT !.result = res, !.fail = "quota"], 429,
               [NoResp EXCEPT !.error = "limit reached", !.count = res.count,
                              !.limit = res.limit, !.remaining = res.remaining,
                              !.plan = pr.rec.plan])
  ELSE Respond([pr EXCEPT !.result = res], 200,
               [NoResp EXCEPT !.success = TRUE, !.count = res.count,
                              !.limit = res.limit, !.remaining = res.remaining,
                              !.plan = pr.rec.plan])

\* a variant that first enforces the limit on the count read with the
\* record, as the free-plan check of the older process-code handler does
UpdateCountRpcPrecheck(p) ==
  /\ procs[p].op = "update"
  /\ procs[p].pc = "rpc"
  /\ LET lim == plan_limits(procs[p].rec.plan)
         out == increment_api_count(procs[p].rec.name)
     IN  IF procs[p].rec.count >= lim
         THEN /\ procs' = [procs EXCEPT ![p] =
                   UpdateCountReply(@, [success |-> FALSE, count |-> procs[p].rec.count,
                                        limit |-> lim, remaining |-> 0])]
              /\ UNCHANGED api_keys
         ELSE /\ api_keys' = [api_keys EXCEPT ![procs[p].rec.name] = out.row]
              /\ procs' = [procs EXCEPT ![p] = UpdateCountReply(@, out.res)]
  /\ UNCHANGED <<users, today, ops, plain, revoked, generated>>

\* the rpc increment_api_count runs in the store and the handler answers
UpdateCountRpc(p) ==
  /\ procs[p].op = "update"
  /\ procs[p].pc = "rpc"
  /\ \/ /\ procs' = [procs EXCEPT ![p] =
              Respond([@ EXCEPT !.fail = "store"], 500,
                      [NoResp EXCEPT !.error = "store error"])]
        /\ UNCHANGED api_keys
     \/ LET out == increment_api_count(procs[p].rec.name)
        IN  /\ api_keys' = [api_keys EXCEPT ![procs[p].rec.name] = out.row]
            /\ procs' = [procs EXCEPT ![p] = UpdateCountReply(@, out.res)]
  /\ UNCHANGED <<users, today, ops, plain, revoked, generated>>

(***************************************************************************)
(* The date changes.                                                       *)
(***************************************************************************)
NextDay ==
  /\ today < MaxDay
  /\ today' = today + 1
  /\ UNCHANGED <<users, api_keys, procs, ops, plain, revoked, generated>>

(***************************************************************************)
(* Text of the model's reply: a sequence of characters over a small        *)
(* alphabet.  "F" is the fence opener ```json and "E" the fence ```, each  *)
(* taken as one character; "k" and "f" are string literals ("f" the string *)
(* "files"), "1" a number, "n" the literal null, "p" a letter of prose and  *)
(* " " white space.                                                        *)
(***************************************************************************)
RECURSIVE SkipWs(_, _)
SkipWs(s, i) == IF i <= Len(s) /\ s[i] = " " THEN SkipWs(s, i + 1) ELSE i

\* JSON.parse, as a recursive-descent recogniser: the index after the value
\* that starts at i, or 0 when there is none
RECURSIVE ParseValue(_, _)
RECURSIVE ParseMembers(_, _, _)
RECURSIVE ParseElements(_, _, _)

ParseValue(s, i) ==
  LET j == SkipWs(s, i)
  IN  IF j > Len(s) THEN 0
      ELSE CASE s[j] \in {"1", "k", "f", "n"} -> j + 1
             [] s[j] = "{" -> ParseMembers(s, j + 1, TRUE)
             [] s[j] = "[" -> ParseElements(s, j + 1, TRUE)
             [] OTHER -> 0

ParseMembers(s, i, first) ==
  LET j == SkipWs(s, i)
  IN  IF j > Len(s) THEN 0
      ELSE IF first /\ s[j] = "}" THEN j + 1
      ELSE IF s[j] \notin {"k", "f"} THEN 0
      ELSE LET c == SkipWs(s, j + 1)
           IN  IF c > Len(s) \/ s[c] # ":" THEN 0
               ELSE LET e == ParseValue(s, c + 1)
                        n == SkipWs(s, e)
                    IN  IF e = 0 \/ n > Len(s) THEN 0
                        ELSE IF s[n] = "}" THEN n + 1
                        ELSE IF s[n] = "," THEN ParseMembers(s, n + 1, FALSE)
                        ELSE 0

ParseElements(s, i, first) ==
  LET j == SkipWs(s, i)
  IN  IF j > Len(s) THEN 0
      ELSE IF first /\ s[j] = "]" THEN j + 1
      ELSE LET e == ParseValue(s, j)
               n == SkipWs(s, e)
           IN  IF e = 0 \/ n > Len(s) THEN 0
               ELSE IF s[n] = "]" THEN n + 1
               ELSE IF s[n] = "," THEN ParseElements(s, n + 1, FALSE)
               ELSE 0

JSONParses(s) ==
  LET e == ParseValue(s, 1) IN e # 0 /\ SkipWs(s, e) = Len(s) + 1

\* index of the first / last occurrence in s, from position i on, of a
\* character of set cs; 0 when there is none
RECURSIVE FirstOf(_, _, _)
FirstOf(s, cs, i) ==
  IF i > Len(s) THEN 0 ELSE IF s[i] \in cs THEN i ELSE FirstOf(s, cs, i + 1)

RECURSIVE LastOf(_, _, _)
LastOf(s, cs, i) ==
  IF i < 1 THEN 0 ELSE IF s[i] \in cs THEN i ELSE LastOf(s, cs, i - 1)

\* aiResponse.match(/```json\s*([\s\S]*?)\s*```/)[1].trim(), <<>> without a match
FencedInterior(s) ==
  LET o == FirstOf(s, {"F"}, 1)
      c == IF o = 0 THEN 0 ELSE FirstOf(s, {"E", "F"}, o + 1)
  IN  IF o = 0 \/ c = 0 THEN <<>> ELSE Trim(SubSeq(s, o + 1, c - 1))

\* aiResponse.match(/\{[\s\S]*\}/)[0], <<>> without a match
BraceSpan(s) ==
  LET o == FirstOf(s, {"{"}, 1)
      c == LastOf(s, {"}"}, Len(s))
  IN  IF o = 0 \/ c < o THEN <<>> ELSE SubSeq(s, o, c)

\* .replace(/^[\s\S]*?(?=\{)/, '').replace(/\}[\s\S]*$/, '}').trim()
Cleaned(s) ==
  LET o  == FirstOf(s, {"{"}, 1)
      s1 == IF o = 0 THEN s ELSE SubSeq(s, o, Len(s))
      c  == FirstOf(s1, {"}"}, 1)
      s2 == IF c = 0 THEN s1 ELSE SubSeq(s1, 1, c)
  IN  Trim(s2)

\* s.replace(/,\s*}/g, '}').replace(/,\s*]/g, ']'): a comma followed, white
\* space apart, by the closer is dropped together with that white space
RECURSIVE DropCommasBefore(_, _)
DropCommasBefore(s, closer) ==
  IF s = <<>> THEN <<>>
  ELSE IF Head(s) = "," /\ SkipWs(s, 2) <= Len(s) /\ s[SkipWs(s, 2)] = closer
       THEN DropCommasBefore(SubSeq(s, SkipWs(s, 2), Len(s)), closer)
       ELSE <<Head(s)>> \o DropCommasBefore(Tail(s), closer)

\* the candidate of the try block of parseAIResponse: strategies 1, 2, 3
JsonContent(aiResponse) ==
  LET c1 == FencedInterior(aiResponse)
      c2 == IF c1 # <<>> THEN c1 ELSE BraceSpan(aiResponse)
      cl == Cleaned(aiResponse)
  IN  IF c2 # <<>> THEN c2
      ELSE IF cl # <<>> /\ Head(cl) = "{" /\ cl[Len(cl)] = "}" THEN cl
      ELSE <<>>

\* the text the catch block of parseAIResponse hands to JSON.parse
FixedJson(aiResponse) ==
  Trim(DropCommasBefore(DropCommasBefore(Cleaned(aiResponse), "}"), "]"))

\* parseAIResponse: the text JSON.parse accepted, or a thrown error
parseAIResponse(aiResponse) ==
  LET c == JsonContent(aiResponse)
  IN  IF c # <<>> /\ JSONParses(c) THEN [ok |-> TRUE, doc |-> c, by |-> "strict"]
      ELSE IF JSONParses(FixedJson(aiResponse))
           THEN [ok |-> TRUE, doc |-> FixedJson(aiResponse), by |-> "fallback"]
           ELSE [ok |-> FALSE, doc |-> <<>>, by |-> "none"]

\* typeof of the value JSON.parse returned for doc ("null" for null)
DocKind(doc) ==
  LET t == doc[SkipWs(doc, 1)]
  IN  CASE t = "{" -> "object"
        [] t = "[" -> "array"
        [] t = "1" -> "number"
        [] t = "n" -> "null"
        [] OTHER   -> "string"

\* Array.isArray(parsedResponse.files) for an object doc: the members of the
\* top-level object from position i on, the last "files" member deciding
RECURSIVE FilesIsArray(_, _, _)
FilesIsArray(doc, i, found) ==
  LET j == SkipWs(doc, i)
  IN  IF doc[j] = "}" THEN found
      ELSE LET c == SkipWs(doc, j + 1)
               v == SkipWs(doc, c + 1)
               n == SkipWs(doc, ParseValue(doc, v))
               now == IF doc[j] = "f" THEN doc[v] = "[" ELSE found
           IN  IF doc[n] = "}" THEN now ELSE FilesIsArray(doc, n + 1, now)

\* the files of the data of the final event: the document's own array, the
\* empty array put in its place, or none at all when the assignment to a
\* property of a number or a string is dropped
FinalFiles(doc) ==
  LET kind == DocKind(doc)
  IN  IF kind = "object"
      THEN IF FilesIsArray(doc, SkipWs(doc, 1) + 1, FALSE) THEN "kept" ELSE "empty"
      ELSE IF kind = "array" THEN "empty"
      ELSE "absent"

(***************************************************************************)
(* Server-Sent Events.                                                     *)
(***************************************************************************)
\* setupSSEHeaders: res.writeHead(200, ...)
setupSSEHeaders(pr) == [pr EXCEPT !.status = 200, !.headers = "event-stream"]

\* sendSSEMessage(res, type, data)
sendSSEMessage(pr, type) == [pr EXCEPT !.events = Append(@, type)]

\* a variant that closes the response without the end event
endSSEUnmarked(pr) == Return([pr EXCEPT !.closed = TRUE])

\* endSSE(res): the end event, then res.end()
endSSE(pr) == Return([pr EXCEPT !.events = Append(@, "end"), !.closed = TRUE])

\* a variant that reports the error and returns with the stream left open
SSEErrorOpen(pr, kind, body) ==
  Return(sendSSEMessage([pr EXCEPT !.fail = kind, !.resp = body], "error"))

\* sendSSEMessage(res, 'error', {error, data}); endSSE(res); return
SSEError(pr, kind, body) ==
  endSSE(sendSSEMessage([pr EXCEPT !.fail = kind, !.resp = body], "error"))

\* the catch block of a streaming route handler
CatchSSE(pr, kind) == SSEError(pr, kind, [NoResp EXCEPT !.error = kind])

\* the catch block when nothing was written yet: the first res.write sends
\* the default status line and headers
CatchUnopened(pr, kind) == CatchSSE([pr EXCEPT !.status = 200, !.headers = "default"], kind)

(***************************************************************************)
(* The request bodies of the streaming endpoints.                          *)
(***************************************************************************)
Endpoints == {"process-code", "generate-custom", "optimize-files"}

requiredFields(endpoint) ==
  CASE endpoint = "process-code" ->
         <<"projectType", "files", "projectLanguage", "packageJson">>
    [] endpoint = "generate-custom" ->
         <<"projectType", "projectLanguage", "userPrompt", "packageJson">>
    [] OTHER -> <<"projectType", "projectLanguage", "files">>

\* the first field of requiredFields with !req.body[field], "none" if there is none
RECURSIVE FirstMissing(_, _)
FirstMissing(fields, body) ==
  IF fields = <<>> THEN "none"
  ELSE IF body[Head(fields)] = "missing" THEN Head(fields)
  ELSE FirstMissing(Tail(fields), body)

\* the input checks a route handler makes after validateAndProcessRequest returned
FilesBad(body)  == body.files \in {"missing", "empty", "string"}
PkgBad(body)    == body.packageJson \in {"missing", "string"}
PromptBad(body) == body.userPrompt \in {"missing", "blank"}

PostValidationFails(endpoint, body) ==
  CASE endpoint = "process-code"    -> FilesBad(body) \/ PkgBad(body)
    [] endpoint = "generate-custom" -> PromptBad(body) \/ PkgBad(body)
    [] OTHER                        -> FilesBad(body)

BodyOK          == [projectType |-> "present", projectLanguage |-> "present",
                    files |-> "nonempty", packageJson |-> "object", userPrompt |-> "text"]
BodyNoLanguage  == [BodyOK EXCEPT !.projectLanguage = "missing"]
BodyEmptyFiles  == [BodyOK EXCEPT !.files = "empty"]
BodyPkgString   == [BodyOK EXCEPT !.packageJson = "string"]
BodyBlankPrompt == [BodyOK EXCEPT !.userPrompt = "blank"]

(***************************************************************************)
(* The model access gate of validateAndProcessRequest.                     *)
(***************************************************************************)
GateAllow == [allow |-> TRUE, resp |-> NoResp]

PolicyGate(plan, selectedModel, userApiKey) ==
  IF selectedModel = "gpt5-mini" /\ plan = "free"
  THEN [allow |-> FALSE,
        resp  |-> [NoResp EXCEPT
                     !.error = "GPT-5 Mini is only available for Pro plan users. Free users can use DeepSeek R1",
                     !.plan = "free", !.availableModels = {"deepseek-r1"}]]
  ELSE IF plan = "free" /\ selectedModel = "deepseek-r1" /\ NotAString(userApiKey)
  THEN [allow |-> FALSE,
        resp  |-> [NoResp EXCEPT
                     !.error = "Free users must provide their OpenRouter API key to use DeepSeek R1 model.",
                     !.plan = "free", !.requiredField = "userApiKey"]]
  ELSE GateAllow

(***************************************************************************)
(* validateAndProcessRequest and the three streaming route handlers.       *)
(***************************************************************************)
\* the request arrives: the debug logging (userApiKey.substring on a truthy
\* userApiKey), headers, connected, input validation, then findApiKeyRecord
\* is awaited
StreamStart(p, endpoint, api_key, selectedModel, userApiKey, body) ==
  /\ Free(p)
  /\ ops < MaxOps
  /\ ops' = ops + 1
  /\ LET rq == [IdleProc EXCEPT !.op = "stream", !.endpoint = endpoint,
                                !.model = selectedModel, !.uak = userApiKey,
                                !.body = body]
         pr == sendSSEMessage(setupSSEHeaders(rq), "connected")
         missing == FirstMissing(requiredFields(endpoint), body)
     IN  procs' = [procs EXCEPT ![p] =
           IF ~Falsy(userApiKey) /\ userApiKey.t # "string"
           THEN CatchUnopened(rq, "type_error")
           ELSE IF NotAString(api_key)
           THEN SSEError(pr, "validation", [NoResp EXCEPT !.error = "API key is required"])
           ELSE IF selectedModel = "undefined"
           THEN SSEError(pr, "validation",
                         [NoResp EXCEPT !.error = "selectedModel is required"])
           ELSE IF missing # "none"
           THEN SSEError(pr, "validation",
                         [NoResp EXCEPT !.error = "field is required",
                                        !.requiredField = missing])
           ELSE sendSSEMessage([pr EXCEPT !.pc = "auth", !.key = Trim(api_key.s)],
                               "status")]
  /\ UNCHANGED <<users, api_keys, today, plain, revoked, generated>>

\* a variant without the gate: the rpc is awaited for every record found
StreamAuthGateless(p) ==
  /\ procs[p].op = "stream"
  /\ procs[p].pc = "auth"
  /\ \/ procs' = [procs EXCEPT ![p] = CatchSSE(@, "store")]
     \/ \E r \in findApiKeyRecord(procs[p].key) :
          procs' = [procs EXCEPT ![p] =
            IF ~r.found
            THEN SSEError(@, "unknown_key", [NoResp EXCEPT !.error = "Invalid API key"])
            ELSE sendSSEMessage([@ EXCEPT !.pc = "rpc", !.rec = r], "status")]
  /\ UNCHANGED <<users, api_keys, today, ops, plain, revoked, generated>>

\* findApiKeyRecord returns or throws; on a record the gate decides and the
\* rpc is awaited
StreamAuth(p) ==
  /\ procs[p].op = "stream"
  /\ procs[p].pc = "auth"
  /\ \/ procs' = [procs EXCEPT ![p] = CatchSSE(@, "store")]
     \/ \E r \in findApiKeyRecord(procs[p].key) :
          LET gate == PolicyGate(r.plan, procs[p].model, procs[p].uak)
          IN  procs' = [procs EXCEPT ![p] =
                IF ~r.found
                THEN SSEError(@, "unknown_key", [NoResp EXCEPT !.error = "Invalid API key"])
                ELSE IF ~gate.allow
                THEN SSEError([@ EXCEPT !.rec = r], "policy", gate.resp)
                ELSE sendSSEMessage([@ EXCEPT !.pc = "rpc", !.rec = r], "status")]
  /\ UNCHANGED <<users, api_keys, today, ops, plain, revoked, generated>>

\* a variant that serves deepseek-r1 to every plan, with the caller's key or
\* without one
ModelCheckLenient(model, userPlan, userApiKey) ==
  CASE model = "deepseek-r1" -> "call"
    [] model = "gpt5-mini" ->
         IF userPlan = "free" THEN "gpt5_pro_only" ELSE "call"
    [] OTHER -> "unsupported_model"

\* callAIModel up to its first await: the plan / model checks
ModelCheck(model, userPlan, userApiKey) ==
  CASE model = "deepseek-r1" ->
         IF userPlan = "free"
         THEN IF Falsy(userApiKey) THEN "openrouter_key_required" ELSE "call"
         ELSE "pro_should_use_gpt5"
    [] model = "gpt5-mini" ->
         IF userPlan = "free" THEN "gpt5_pro_only" ELSE "call"
    [] OTHER -> "unsupported_model"

\* the message of an error callAIModel throws, as the catch block reports it
CallErrorBody(kind) ==
  [NoResp EXCEPT !.error = kind,
                 !.availableModels = IF kind = "unsupported_model"
                                     THEN {"deepseek-r1", "gpt5-mini"} ELSE {}]

\* callAIModel(prompt, model, res, userPlan, userApiKey) up to its first
\* await: chat.completions.create is called, or an error is thrown to the
\* catch block of the route handler
callAIModel(pr, userPlan, userApiKey) ==
  LET check == ModelCheck(pr.model, userPlan, userApiKey)
  IN  IF check = "call"
      THEN [pr EXCEPT !.pc = "create", !.calls = @ + 1]
      ELSE SSEError(pr, check, CallErrorBody(check))

\* a variant that goes on to the upstream call whatever the rpc answered
AfterRpcUnmetered(pr, res) ==
  LET ok == [pr EXCEPT !.result = res]
      key == IF ok.uak.t = "string" THEN Str(Trim(ok.uak.s)) ELSE ok.uak
  IN  IF PostValidationFails(ok.endpoint, ok.body)
      THEN SSEError(ok, "post_validation", [NoResp EXCEPT !.error = "Invalid input"])
      ELSE callAIModel(sendSSEMessage(sendSSEMessage(ok, "status"), "status"),
                       ok.rec.plan, key)

\* the handler from the return of the rpc to the upstream call
AfterRpc(pr, res) ==
  IF ~res.success
  THEN SSEError([pr EXCEPT !.result = res], "quota",
                [NoResp EXCEPT !.error = "limit reached", !.count = res.count,
                               !.limit = res.limit,
                               !.remaining = res.limit - res.count,
                               !.plan = pr.rec.plan])
  ELSE LET ok == [pr EXCEPT !.result = res]
           \* userApiKey?.trim()
           key == IF ok.uak.t = "string" THEN Str(Trim(ok.uak.s)) ELSE ok.uak
       IN  IF ok.uak.t = "number" THEN CatchSSE(ok, "type_error")
           ELSE IF PostValidationFails(ok.endpoint, ok.body)
           THEN SSEError(ok, "post_validation", [NoResp EXCEPT !.error = "Invalid input"])
           ELSE callAIModel(sendSSEMessage(sendSSEMessage(ok, "status"), "status"),
                            ok.rec.plan, key)

\* a variant that writes the count read with the record, plus one
StreamRpcReadThenWrite(p) ==
  /\ procs[p].op = "stream"
  /\ procs[p].pc = "rpc"
  /\ LET n   == procs[p].rec.name
         c   == procs[p].rec.count + 1
         lim == plan_limits(procs[p].rec.plan)
         res == [success |-> c <= lim, count |-> Min(c, lim), limit |-> lim,
                 remaining |-> lim - Min(c, lim)]
     IN  /\ api_keys' = IF c <= lim THEN [api_keys EXCEPT ![n].count = c] ELSE api_keys
         /\ procs' = [procs EXCEPT ![p] = AfterRpc(@, res)]
  /\ UNCHANGED <<users, today, ops, plain, revoked, generated>>

\* the rpc increment_api_count runs in the store and the handler goes on
StreamRpc(p) ==
  /\ procs[p].op = "stream"
  /\ procs[p].pc = "rpc"
  /\ \/ /\ procs' = [procs EXCEPT ![p] = CatchSSE(@, "store")]
        /\ UNCHANGED api_keys
     \/ LET out == increment_api_count(procs[p].rec.name)
        IN  /\ api_keys' = [api_keys EXCEPT ![procs[p].rec.name] = out.row]
            /\ procs' = [procs EXCEPT ![p] = AfterRpc(@, out.res)]
  /\ UNCHANGED <<users, today, ops, plain, revoked, generated>>

\* chat.completions.create answers: a stream, or an error
StreamCreate(p) ==
  /\ procs[p].op = "stream"
  /\ procs[p].pc = "create"
  /\ \/ procs' = [procs EXCEPT ![p] = [@ EXCEPT !.pc = "streaming"]]
     \/ procs' = [procs EXCEPT ![p] = CatchSSE(@, "upstream")]
  /\ UNCHANGED <<users, api_keys, today, ops, plain, revoked, generated>>

\* a variant that puts each new fragment in front of the accumulated text
OnChunkPrepend(pr, content) ==
  LET got == [pr EXCEPT !.chunks = @ + 1, !.frags = Append(@, content)]
  IN  IF content = <<>> THEN got
      ELSE sendSSEMessage([got EXCEPT !.text = content \o @, !.sent = Append(@, content)],
                          "chunk")

\* one pass of the for-await loop: a fragment with content is accumulated
\* and sent as a chunk event, one without content is skipped
OnChunk(pr, content) ==
  LET got == [pr EXCEPT !.chunks = @ + 1, !.frags = Append(@, content)]
  IN  IF content = <<>> THEN got
      ELSE sendSSEMessage([got EXCEPT !.text = @ \o content, !.sent = Append(@, content)],
                          "chunk")

StreamChunk(p, content) ==
  /\ procs[p].op = "stream"
  /\ procs[p].pc = "streaming"
  /\ procs[p].chunks < MaxChunks
  /\ procs' = [procs EXCEPT ![p] = OnChunk(@, content)]
  /\ UNCHANGED <<users, api_keys, today, ops, plain, revoked, generated>>

\* a variant that takes the increment back when the upstream stream breaks
StreamBreakRefund(p) ==
  /\ procs[p].op = "stream"
  /\ procs[p].pc = "streaming"
  /\ procs' = [procs EXCEPT ![p] = CatchSSE(@, "upstream")]
  /\ api_keys' = [api_keys EXCEPT ![procs[p].rec.name].count = IF @ > 0 THEN @ - 1 ELSE @]
  /\ UNCHANGED <<users, today, ops, plain, revoked, generated>>

\* the upstream stream breaks
StreamBreak(p) ==
  /\ procs[p].op = "stream"
  /\ procs[p].pc = "streaming"
  /\ procs' = [procs EXCEPT ![p] = CatchSSE(@, "upstream")]
  /\ UNCHANGED <<users, api_keys, today, ops, plain, revoked, generated>>

\* a variant that has already sent the final event when the parse fails
ParseFailedAfterFinal(pr) ==
  SSEError(sendSSEMessage(pr, "final"), "extraction",
           [NoResp EXCEPT !.error = "extraction", !.details = {"originalError"}])

\* the catch block of the route after parseAIResponse threw
\* Error(`Failed to parse AI response: ${parseError.message}`): the error
\* event carries that message, which quotes the first parse error only
ParseFailed(pr) ==
  SSEError(pr, "extraction",
           [NoResp EXCEPT !.error = "extraction", !.details = {"originalError"}])

\* a variant that returns after complete and leaves the response open
FinishOpen(pr) ==
  LET st == sendSSEMessage(pr, "status")
      parsed == parseAIResponse(pr.text)
  IN  IF ~parsed.ok THEN ParseFailed(st)
      ELSE Return(sendSSEMessage(
             sendSSEMessage([st EXCEPT !.resp = [NoResp EXCEPT !.success = TRUE]], "final"),
             "complete"))

\* a variant that sends the final event as soon as the text is parsed and
\* the progress message after it
FinishFinalFirst(pr) ==
  LET parsed == parseAIResponse(pr.text)
  IN  IF ~parsed.ok THEN ParseFailed(sendSSEMessage(pr, "status"))
      ELSE IF DocKind(parsed.doc) = "null"
      THEN CatchSSE(sendSSEMessage(pr, "status"), "type_error")
      ELSE endSSE(sendSSEMessage(sendSSEMessage(
             sendSSEMessage([pr EXCEPT !.resp = [NoResp EXCEPT !.success = TRUE]],
                            "final"),
             "status"), "complete"))

\* the handler after callAIModel returned: status, parseAIResponse, the
\* files check (reading a property of null throws), final, complete, end;
\* or the catch block
Finish(pr) ==
  LET st == sendSSEMessage(pr, "status")
      parsed == parseAIResponse(pr.text)
  IN  IF ~parsed.ok THEN ParseFailed(st)
      ELSE IF DocKind(parsed.doc) = "null" THEN CatchSSE(st, "type_error")
      ELSE endSSE(sendSSEMessage(
             sendSSEMessage([st EXCEPT !.resp =
                               [NoResp EXCEPT !.success = TRUE,
                                              !.data = parsed.doc,
                                              !.files = FinalFiles(parsed.doc),
                                              !.count = st.result.count,
                                              !.limit = st.result.limit,
                                              !.remaining = st.result.remaining,
                                              !.plan = st.rec.plan]],
                            "final"),
             "complete"))

\* the upstream stream ends
StreamEnd(p) ==
  /\ procs[p].op = "stream"
  /\ procs[p].pc = "streaming"
  /\ procs' = [procs EXCEPT ![p] = Finish(@)]
  /\ UNCHANGED <<users, api_keys, today, ops, plain, revoked, generated>>

\* the client closes the connection while the upstream call is in flight;
\* no handler listens for it, gone records how many events were written
ClientDisconnect(p) ==
  /\ procs[p].op = "stream"
  /\ procs[p].pc \in {"create", "streaming"}
  /\ procs[p].gone = -1
  /\ procs' = [procs EXCEPT ![p].gone = Len(procs[p].events)]
  /\ UNCHANGED <<users, api_keys, today, ops, plain, revoked, generated>>

\* a route handler calls callAIModel with these arguments
CallAIModel(p) ==
  /\ procs[p].op = "stream"
  /\ procs[p].pc = "call"
  /\ procs' = [procs EXCEPT ![p] = callAIModel(@, @.rec.plan, @.uak)]
  /\ UNCHANGED <<users, api_keys, today, ops, plain, revoked, generated>>

(***************************************************************************)
(* POST /api/generate-api-key                                              *)
(***************************************************************************)
\* the request arrives: validation of name, then the select on users is awaited
GenerateStart(p, name, userProvidedApiKey) ==
  /\ Free(p)
  /\ ops < MaxOps
  /\ ops' = ops + 1
  /\ LET pr == [IdleProc EXCEPT !.op = "generate", !.uak = userProvidedApiKey]
     IN  procs' = [procs EXCEPT ![p] =
           IF name = "none"
           THEN Respond([pr EXCEPT !.fail = "validation"], 400,
                        [NoResp EXCEPT !.error = "Name is required"])
           ELSE [pr EXCEPT !.pc = "g_user", !.name = name]]
  /\ UNCHANGED <<users, api_keys, today, plain, revoked, generated>>

StoreError(pr) ==
  Respond([pr EXCEPT !.fail = "store"], 500, [NoResp EXCEPT !.error = "store error"])

\* the select on users answers; a missing user is inserted, else the select on
\* api_keys is awaited
GenerateUser(p) ==
  /\ procs[p].op = "generate"
  /\ procs[p].pc = "g_user"
  /\ LET n == procs[p].name
     IN  \/ procs' = [procs EXCEPT ![p] = StoreError(@)]
         \/ procs' = [procs EXCEPT ![p] =
              IF users[n].exists
              THEN [@ EXCEPT !.pc = "g_key", !.read.userExists = TRUE,
                             !.read.plan = users[n].plan]
              ELSE [@ EXCEPT !.pc = "g_insert", !.read.plan = "free"]]
  /\ UNCHANGED <<users, api_keys, today, ops, plain, revoked, generated>>

\* the insert into users runs; name is unique, so it fails when the user has
\* appeared meanwhile
GenerateInsertUser(p) ==
  /\ procs[p].op = "generate"
  /\ procs[p].pc = "g_insert"
  /\ LET n == procs[p].name
     IN  IF users[n].exists
         THEN /\ procs' = [procs EXCEPT ![p] = StoreError(@)]
              /\ UNCHANGED users
         ELSE /\ users' = [users EXCEPT ![n] = UserRow("free", "none", "none")]
              /\ procs' = [procs EXCEPT ![p] = [@ EXCEPT !.pc = "g_key"]]
  /\ UNCHANGED <<api_keys, today, ops, plain, revoked, generated>>

\* the select on api_keys answers: 409 on an active key, else the new key is
\* chosen by plan and hashed
GenerateKey(p) ==
  /\ procs[p].op = "generate"
  /\ procs[p].pc = "g_key"
  /\ LET n        == procs[p].name
         existing == api_keys[n]
         seen     == [procs[p].read EXCEPT !.rowExists = existing.exists,
                                           !.hasKey = ~existing.api_key.null,
                                           !.count = existing.count,
                                           !.last_reset_date = existing.last_reset_date]
     IN  \/ /\ procs' = [procs EXCEPT ![p] = StoreError(@)]
            /\ UNCHANGED generated
         \/ /\ existing.exists /\ ~existing.api_key.null
            /\ procs' = [procs EXCEPT ![p] =
                 Respond([@ EXCEPT !.fail = "conflict", !.read = seen], 409,
                         [NoResp EXCEPT !.error = "API key already exists for this user"])]
            /\ UNCHANGED generated
         \/ /\ ~(existing.exists /\ ~existing.api_key.null)
            /\ procs[p].read.plan = "free"
            /\ procs' = [procs EXCEPT ![p] =
                 IF NotAString(procs[p].uak)
                 THEN Respond([@ EXCEPT !.fail = "validation", !.read = seen], 400,
                              [NoResp EXCEPT !.error = "Free users must provide their own API key"])
                 ELSE [@ EXCEPT !.pc = "g_write", !.read = seen,
                                !.newKey = Trim(procs[p].uak.s)]]
            /\ UNCHANGED generated
         \/ /\ ~(existing.exists /\ ~existing.api_key.null)
            /\ procs[p].read.plan = "pro"
            /\ \E k \in GenKeys \ generated :
                 /\ generated' = generated \cup {k}
                 /\ procs' = [procs EXCEPT ![p] =
                      [@ EXCEPT !.pc = "g_write", !.read = seen, !.newKey = k]]
  /\ UNCHANGED <<users, api_keys, today, ops, plain, revoked>>

\* the count and reset date generate-api-key writes back
PreservedCount(read, day) ==
  IF read.rowExists /\ read.last_reset_date = day THEN read.count ELSE 0

PreservedResetDate(read, day) ==
  IF read.rowExists /\ read.last_reset_date = day THEN read.last_reset_date ELSE day

\* the update (or insert) of the api_keys row runs and the handler answers
GenerateWrite(p) ==
  /\ procs[p].op = "generate"
  /\ procs[p].pc = "g_write"
  /\ LET n    == procs[p].name
         read == procs[p].read
         row  == KeyRow(hashApiKey(procs[p].newKey), PreservedCount(read, today),
                        PreservedResetDate(read, today))
         ok   == [NoResp EXCEPT !.success = TRUE, !.plan = read.plan,
                                !.count = PreservedCount(read, today),
                                !.api_key = IF read.plan = "pro" THEN "plaintext" ELSE "none"]
     IN  \/ /\ procs' = [procs EXCEPT ![p] = StoreError(@)]
            /\ UNCHANGED <<api_keys, plain, revoked>>
         \/ /\ ~read.rowExists /\ api_keys[n].exists   \* insert: name is taken
            /\ procs' = [procs EXCEPT ![p] = StoreError(@)]
            /\ UNCHANGED <<api_keys, plain, revoked>>
         \/ /\ read.rowExists \/ ~api_keys[n].exists
            /\ api_keys' = [api_keys EXCEPT ![n] = row]
            /\ plain' = [plain EXCEPT ![n] = procs[p].newKey]
            /\ revoked' = [revoked EXCEPT ![n] = NoKey]
            /\ procs' = [procs EXCEPT ![p] = Respond(@, 200, ok)]
  /\ UNCHANGED <<users, today, ops, generated>>

(***************************************************************************)
(* POST /api/delete-api-key                                                *)
(***************************************************************************)
DeleteStart(p, name) ==
  /\ Free(p)
  /\ ops < MaxOps
  /\ ops' = ops + 1
  /\ LET pr == [IdleProc EXCEPT !.op = "delete"]
     IN  procs' = [procs EXCEPT ![p] =
           IF name = "none"
           THEN Respond([pr EXCEPT !.fail = "validation"], 400,
                        [NoResp EXCEPT !.error = "Name is required"])
           ELSE [pr EXCEPT !.pc = "d_read", !.name = name]]
  /\ UNCHANGED <<users, api_keys, today, plain, revoked, generated>>

\* the select on api_keys answers
DeleteRead(p) ==
  /\ procs[p].op = "delete"
  /\ procs[p].pc = "d_read"
  /\ LET n == procs[p].name
     IN  \/ procs' = [procs EXCEPT ![p] = StoreError(@)]
         \/ procs' = [procs EXCEPT ![p] =
              IF ~api_keys[n].exists
              THEN Respond([@ EXCEPT !.fail = "not_found"], 404,
                           [NoResp EXCEPT !.error = "No API key record found for this user"])
              ELSE IF api_keys[n].api_key.null
              THEN Respond([@ EXCEPT !.fail = "not_found"], 404,
                           [NoResp EXCEPT !.error = "No active API key found for this user"])
              ELSE [@ EXCEPT !.pc = "d_write"]]
  /\ UNCHANGED <<users, api_keys, today, ops, plain, revoked, generated>>

\* the update api_key = null runs and the handler answers
DeleteWrite(p) ==
  /\ procs[p].op = "delete"
  /\ procs[p].pc = "d_write"
  /\ LET n == procs[p].name
     IN  \/ /\ procs' = [procs EXCEPT ![p] = StoreError(@)]
            /\ UNCHANGED <<api_keys, plain, revoked>>
         \/ /\ api_keys' = [api_keys EXCEPT ![n].api_key = NullKey]
            /\ revoked' = [revoked EXCEPT ![n] =
                             IF api_keys[n].api_key.null THEN @ ELSE plain[n]]
            /\ plain' = [plain EXCEPT ![n] = NoKey]
            /\ procs' = [procs EXCEPT ![p] =
                 Respond(@, 200, [NoResp EXCEPT !.success = TRUE])]
  /\ UNCHANGED <<users, today, ops, generated>>

(***************************************************************************)
(* POST /api/handle-user-auth                                              *)
(***************************************************************************)
HandleUserAuthStart(p, email) ==
  /\ Free(p)
  /\ ops < MaxOps
  /\ ops' = ops + 1
  /\ LET pr == [IdleProc EXCEPT !.op = "userauth"]
     IN  procs' = [procs EXCEPT ![p] =
           IF email = "none"
           THEN Respond([pr EXCEPT !.fail = "validation"], 400,
                        [NoResp EXCEPT !.error = "Email is required"])
           ELSE [pr EXCEPT !.pc = "a_users", !.name = email]]
  /\ UNCHANGED <<users, api_keys, today, plain, revoked, generated>>

\* the upsert {name, plan: 'free'} into users runs (on conflict: update)
HandleUserAuthUsers(p) ==
  /\ procs[p].op = "userauth"
  /\ procs[p].pc = "a_users"
  /\ LET n == procs[p].name
     IN  \/ /\ procs' = [procs EXCEPT ![p] = StoreError(@)]
            /\ UNCHANGED users
         \/ /\ users' = [users EXCEPT ![n] =
                           IF @.exists THEN [@ EXCEPT !.plan = "free"]
                           ELSE UserRow("free", "none", "none")]
            /\ procs' = [procs EXCEPT ![p] = [@ EXCEPT !.pc = "a_keys"]]
  /\ UNCHANGED <<api_keys, today, ops, plain, revoked, generated>>

\* the upsert {name, count: 0, last_reset_date: today} into api_keys runs
HandleUserAuthKeys(p) ==
  /\ procs[p].op = "userauth"
  /\ procs[p].pc = "a_keys"
  /\ LET n == procs[p].name
     IN  \/ /\ procs' = [procs EXCEPT ![p] = StoreError(@)]
            /\ UNCHANGED api_keys
         \/ /\ api_keys' = [api_keys EXCEPT ![n] =
                              IF @.exists
                              THEN [@ EXCEPT !.count = 0, !.last_reset_date = today]
                              ELSE KeyRow(NullKey, 0, today)]
            /\ procs' = [procs EXCEPT ![p] =
                 Respond(@, 200, [NoResp EXCEPT !.success = TRUE])]
  /\ UNCHANGED <<users, today, ops, plain, revoked, generated>>

(***************************************************************************)
(* POST /api/subscription/cancel                                           *)
(***************************************************************************)
CancelStart(p, userName) ==
  /\ Free(p)
  /\ ops < MaxOps
  /\ ops' = ops + 1
  /\ LET pr == [IdleProc EXCEPT !.op = "cancel"]
     IN  procs' = [procs EXCEPT ![p] =
           IF userName = "none"
           THEN Respond([pr EXCEPT !.fail = "validation"], 400,
                        [NoResp EXCEPT !.error = "Missing required fields"])
           ELSE [pr EXCEPT !.pc = "c_read", !.name = userName]]
  /\ UNCHANGED <<users, api_keys, today, plain, revoked, generated>>

\* the select on users answers; the checks on the subscription; Paddle is called
CancelRead(p) ==
  /\ procs[p].op = "cancel"
  /\ procs[p].pc = "c_read"
  /\ LET u == users[procs[p].name]
     IN  \/ procs' = [procs EXCEPT ![p] =
              Respond([@ EXCEPT !.fail = "not_found"], 404,
                      [NoResp EXCEPT !.error = "User not found"])]
         \/ /\ u.exists
            /\ procs' = [procs EXCEPT ![p] =
                 IF u.subscription_id = "none"
                 THEN Respond([@ EXCEPT !.fail = "validation"], 400,
                              [NoResp EXCEPT !.error = "No subscription found"])
                 ELSE IF u.subscription_status
                           \in {"cancelled", "cancel_at_period_end", "past_due"}
                 THEN Respond([@ EXCEPT !.fail = "validation"], 400,
                              [NoResp EXCEPT !.error = "Cannot cancel"])
                 ELSE [@ EXCEPT !.pc = "c_paddle"]]
  /\ UNCHANGED <<users, api_keys, today, ops, plain, revoked, generated>>

\* Paddle answers: an error, a scheduled cancellation, or an immediate one
CancelPaddle(p) ==
  /\ procs[p].op = "cancel"
  /\ procs[p].pc = "c_paddle"
  /\ \/ procs' = [procs EXCEPT ![p] =
            Respond([@ EXCEPT !.fail = "paddle"], 500,
                    [NoResp EXCEPT !.error = "Paddle cancellation failed"])]
     \/ \E how \in {"scheduled", "immediate"} :
          procs' = [procs EXCEPT ![p] = [@ EXCEPT !.pc = "c_write", !.aux = how]]
  /\ UNCHANGED <<users, api_keys, today, ops, plain, revoked, generated>>

\* the update of the users row runs and the handler answers
CancelWrite(p) ==
  /\ procs[p].op = "cancel"
  /\ procs[p].pc = "c_write"
  /\ LET n == procs[p].name
     IN  \/ /\ procs[p].aux = "scheduled"
            /\ \/ /\ users' = [users EXCEPT ![n].subscription_status =
                                                 "cancel_at_period_end"]
                  /\ procs' = [procs EXCEPT ![p] =
                       Respond(@, 200, [NoResp EXCEPT !.success = TRUE])]
               \/ /\ UNCHANGED users
                  /\ procs' = [procs EXCEPT ![p] = StoreError(@)]
         \/ /\ procs[p].aux = "immediate"
            /\ \/ users' = [users EXCEPT ![n].subscription_status = "cancelled",
                                         ![n].plan = "free"]
               \/ UNCHANGED users            \* updateError is only logged
            /\ procs' = [procs EXCEPT ![p] =
                 Respond(@, 200, [NoResp EXCEPT !.success = TRUE])]
  /\ UNCHANGED <<api_keys, today, ops, plain, revoked, generated>>

(***************************************************************************)
(* POST /api/webhooks/paddle and the subscription handlers.  An event of   *)
(* type kind for identity n carries customData.userName = n and the        *)
(* subscription id of n's subscription, which the model writes n as well.  *)
(***************************************************************************)
PlanEvents   == {"activated", "past_due", "canceled", "paused", "resumed"}
StatusEvents == {"updated_cancel", "updated_active"}

\* a variant in which no payment event takes the pro plan away
EventPlanKept(kind) == "pro"

\* the plan and status a plan event writes
EventPlan(kind) ==
  IF kind \in {"activated", "resumed"} THEN "pro" ELSE "free"
EventStatus(kind) ==
  CASE kind = "past_due" -> "past_due"
    [] kind = "canceled" -> "cancelled"
    [] kind = "paused"   -> "paused"
    [] OTHER             -> "active"

\* the event arrives; its signature is verified; the handler awaits its first query
WebhookStart(p, kind, n) ==
  /\ Free(p)
  /\ ops < MaxOps
  /\ ops' = ops + 1
  /\ procs' = [procs EXCEPT ![p] =
       [IdleProc EXCEPT !.op = "webhook", !.aux = kind, !.name = n,
                        !.pc = IF kind \in StatusEvents THEN "w_status" ELSE "w_user"]]
  /\ UNCHANGED <<users, api_keys, today, plain, revoked, generated>>

\* handleSubscriptionUpdated: one update of subscription_status by subscription id
WebhookStatus(p) ==
  /\ procs[p].op = "webhook"
  /\ procs[p].pc = "w_status"
  /\ LET sub == procs[p].name
         st  == IF procs[p].aux = "updated_cancel" THEN "cancel_at_period_end" ELSE "active"
     IN  \/ UNCHANGED users
         \/ users' = [n \in Names |->
                        IF users[n].exists /\ users[n].subscription_id = sub
                        THEN [users[n] EXCEPT !.subscription_status = st]
                        ELSE users[n]]
  /\ procs' = [procs EXCEPT ![p] = Respond(@, 200, NoResp)]
  /\ UNCHANGED <<api_keys, today, ops, plain, revoked, generated>>

\* the select of the user answers: by name for activated, by subscription id else
WebhookUser(p) ==
  /\ procs[p].op = "webhook"
  /\ procs[p].pc = "w_user"
  /\ LET n     == procs[p].name
         found == IF procs[p].aux = "activated" THEN users[n].exists
                  ELSE users[n].exists /\ users[n].subscription_id = n
     IN  \/ procs' = [procs EXCEPT ![p] = Respond([@ EXCEPT !.fail = "not_found"], 200, NoResp)]
         \/ /\ found
            /\ procs' = [procs EXCEPT ![p] = [@ EXCEPT !.pc = "w_plan"]]
  /\ UNCHANGED <<users, api_keys, today, ops, plain, revoked, generated>>

\* the update of plan and subscription_status runs
WebhookPlan(p) ==
  /\ procs[p].op = "webhook"
  /\ procs[p].pc = "w_plan"
  /\ LET n    == procs[p].name
         kind == procs[p].aux
     IN  \/ /\ UNCHANGED users
            /\ procs' = [procs EXCEPT ![p] = Respond([@ EXCEPT !.fail = "store"], 200, NoResp)]
         \/ /\ users' = [m \in Names |->
                 IF kind = "activated"
                 THEN IF m = n /\ users[m].exists
                      THEN [users[m] EXCEPT !.plan = "pro", !.subscription_status = "active",
                                            !.subscription_id = n]
                      ELSE users[m]
                 ELSE IF users[m].exists /\ users[m].subscription_id = n
                      THEN [users[m] EXCEPT !.plan = EventPlan(kind),
                                            !.subscription_status = EventStatus(kind)]
                      ELSE users[m]]
            /\ procs' = [procs EXCEPT ![p] = [@ EXCEPT !.pc = "w_null"]]
  /\ UNCHANGED <<api_keys, today, ops, plain, revoked, generated>>

\* the update api_key = null runs; its error is only logged
WebhookNull(p) ==
  /\ procs[p].op = "webhook"
  /\ procs[p].pc = "w_null"
  /\ LET n == procs[p].name
     IN  \/ UNCHANGED <<api_keys, plain>>
         \/ /\ api_keys' = [api_keys EXCEPT ![n].api_key = NullKey]
            /\ plain' = [plain EXCEPT ![n] = NoKey]
  /\ procs' = [procs EXCEPT ![p] = [@ EXCEPT !.pc = "w_count"]]
  /\ UNCHANGED <<users, today, ops, revoked, generated>>

\* the update count = 0, last_reset_date = today runs; its error is only logged
WebhookCount(p) ==
  /\ procs[p].op = "webhook"
  /\ procs[p].pc = "w_count"
  /\ LET n == procs[p].name
     IN  \/ UNCHANGED api_keys
         \/ api_keys' = [api_keys EXCEPT ![n] =
                           IF @.exists THEN [@ EXCEPT !.count = 0, !.last_reset_date = today]
                           ELSE @]
  /\ procs' = [procs EXCEPT ![p] = Respond(@, 200, NoResp)]
  /\ UNCHANGED <<users, today, ops, plain, revoked, generated>>

(***************************************************************************)
(* The gateway: the store in a state the service can have brought it to,   *)
(* and requests arriving at any time on two connections.                   *)
(***************************************************************************)
\* what one identity can look like in the store
FreeWithKey(k, c, d) ==
  [user |-> UserRow("free", "none", "none"), row |-> KeyRow(hashApiKey(k), c, d),
   plain |-> k]
ProWithKey(n, k, c, d) ==
  [user |-> UserRow("pro", "active", n), row |-> KeyRow(hashApiKey(k), c, d),
   plain |-> k]
FreeNoKey(d) ==
  [user |-> UserRow("free", "none", "none"), row |-> KeyRow(NullKey, 0, d),
   plain |-> NoKey]
Unknown == [user |-> NoUser, row |-> NoRow, plain |-> NoKey]

U1Configs ==
  {FreeWithKey(KLongA, 0, 1), FreeWithKey(KLongA, FreeLimit, 0),
   ProWithKey("u1", KGen1, ProLimit, 0), ProWithKey("u1", KGen1, ProLimit, 1)}

U2Configs == {Unknown, FreeNoKey(1)}

\* the store holds configuration c1 for u1 and c2 for u2, on day 1
StoreIs(c1, c2) ==
  /\ today = 1
  /\ ops = 0
  /\ revoked = [n \in Names |-> NoKey]
  /\ users = [n \in Names |-> IF n = "u1" THEN c1.user ELSE c2.user]
  /\ api_keys = [n \in Names |-> IF n = "u1" THEN c1.row ELSE c2.row]
  /\ plain = [n \in Names |-> IF n = "u1" THEN c1.plain ELSE c2.plain]
  /\ generated = {c1.plain, c2.plain} \cap GenKeys

Init ==
  /\ procs = [p \in Slots |-> IdleProc]
  /\ \E c1 \in U1Configs, c2 \in U2Configs : StoreIs(c1, c2)

\* the requests of the gateway specification: slot 1 is the connection of a
\* client of the streaming endpoints, slot 2 that of the account pages, the
\* metering endpoint and the payment provider
UpdateKeys == {Undef, Str(KLongA), Str(KLongB), Str(KGen1)}

StreamRequests ==
  { [endpoint |-> "process-code", api_key |-> Str(KLongA), selectedModel |-> "deepseek-r1",
     userApiKey |-> Str(<<"o", "r">>), body |-> BodyOK],
    [endpoint |-> "generate-custom", api_key |-> Str(KLongB), selectedModel |-> "deepseek-r1",
     userApiKey |-> Undef, body |-> BodyOK],
    [endpoint |-> "optimize-files", api_key |-> Str(KGen1), selectedModel |-> "gpt5-mini",
     userApiKey |-> Undef, body |-> BodyOK],
    [endpoint |-> "process-code", api_key |-> Str(KGen1), selectedModel |-> "gpt5-mini",
     userApiKey |-> Undef, body |-> BodyEmptyFiles],
    [endpoint |-> "process-code", api_key |-> Str(KLongA), selectedModel |-> "deepseek-r1",
     userApiKey |-> Num, body |-> BodyOK],
    [endpoint |-> "optimize-files", api_key |-> Undef, selectedModel |-> "other",
     userApiKey |-> Undef, body |-> BodyOK] }

Fragments == {<<"p">>, <<"{", "f", ":", "[", "]", "}">>}

NameInputs == Names \cup {"none"}

Next ==
  \/ \E k \in UpdateKeys : UpdateCountStart(2, k)
  \/ \E p \in Slots : UpdateCountAuth(p)
  \/ \E p \in Slots : UpdateCountRpc(p)
  \/ \E r \in StreamRequests :
       StreamStart(1, r.endpoint, r.api_key, r.selectedModel, r.userApiKey, r.body)
  \/ \E p \in Slots : StreamAuth(p)
  \/ \E p \in Slots : StreamRpc(p)
  \/ \E p \in Slots : StreamCreate(p)
  \/ \E p \in Slots, c \in Fragments : StreamChunk(p, c)
  \/ \E p \in Slots : StreamBreak(p)
  \/ \E p \in Slots : StreamEnd(p)
  \/ \E n \in NameInputs, k \in {Undef, Str(KLongA)} : GenerateStart(2, n, k)
  \/ \E p \in Slots : GenerateUser(p)
  \/ \E p \in Slots : GenerateInsertUser(p)
  \/ \E p \in Slots : GenerateKey(p)
  \/ \E p \in Slots : GenerateWrite(p)
  \/ \E n \in NameInputs : DeleteStart(2, n)
  \/ \E p \in Slots : DeleteRead(p)
  \/ \E p \in Slots : DeleteWrite(p)
  \/ \E n \in NameInputs : HandleUserAuthStart(2, n)
  \/ \E p \in Slots : HandleUserAuthUsers(p)
  \/ \E p \in Slots : HandleUserAuthKeys(p)
  \/ \E n \in {"u1", "none"} : CancelStart(2, n)
  \/ \E p \in Slots : CancelRead(p)
  \/ \E p \in Slots : CancelPaddle(p)
  \/ \E p \in Slots : CancelWrite(p)
  \/ \E k \in PlanEvents \cup StatusEvents : WebhookStart(2, k, "u1")
  \/ \E p \in Slots : WebhookStatus(p)
  \/ \E p \in Slots : WebhookUser(p)
  \/ \E p \in Slots : WebhookPlan(p)
  \/ \E p \in Slots : WebhookNull(p)
  \/ \E p \in Slots : WebhookCount(p)
  \/ NextDay

Spec == Init /\ [][Next]_vars

(***************************************************************************)
(* One connection: requests to the streaming endpoints and to update-count *)
(* arrive one after the other, with every combination of the inputs the    *)
(* handlers test.                                                          *)
(***************************************************************************)
SeqU1Configs ==
  {FreeWithKey(KLongA, c, d) : c \in {0, FreeLimit}, d \in {0, 1}}
    \cup {ProWithKey("u1", KGen1, c, d) : c \in {0, ProLimit}, d \in {0, 1}}

SeqU2Configs == {Unknown, FreeWithKey(KShort, 0, 1)}

InitSeq ==
  /\ procs = [p \in {1} |-> IdleProc]
  /\ \E c1 \in SeqU1Configs, c2 \in SeqU2Configs : StoreIs(c1, c2)

SeqApiKeys   == {Undef, Str(<<" ">>), Str(KLongA), Str(KGen1), Str(KGen2),
                 Str(<<" ">> \o KShort)}
SeqModels    == {"undefined", "deepseek-r1", "gpt5-mini", "other"}
SeqUserKeys  == {Undef, Num, Str(<<" ">>), Str(<<"o", "r">>)}
SeqBodies    == {BodyOK, BodyNoLanguage, BodyEmptyFiles, BodyPkgString, BodyBlankPrompt}
SeqFragments == {<<>>, <<"p">>, <<"{", "f", ":", "[", "]", "}">>}

\* every body on every endpoint for the two issued keys, and every
\* combination of key, model and own upstream key on one endpoint
SeqRequests ==
  { [endpoint |-> e, api_key |-> k, selectedModel |-> "deepseek-r1",
     userApiKey |-> Str(<<"o", "r">>), body |-> b] :
       e \in Endpoints, k \in {Str(KLongA), Str(KGen1)}, b \in SeqBodies }
    \cup
  { [endpoint |-> "process-code", api_key |-> k, selectedModel |-> m,
     userApiKey |-> u, body |-> BodyOK] :
       k \in SeqApiKeys, m \in SeqModels, u \in SeqUserKeys }

NextSeq ==
  \/ \E k \in SeqApiKeys : UpdateCountStart(1, k)
  \/ UpdateCountAuth(1)
  \/ UpdateCountRpc(1)
  \/ \E r \in SeqRequests :
       StreamStart(1, r.endpoint, r.api_key, r.selectedModel, r.userApiKey, r.body)
  \/ StreamAuth(1)
  \/ StreamRpc(1)
  \/ StreamCreate(1)
  \/ \E c \in SeqFragments : StreamChunk(1, c)
  \/ StreamBreak(1)
  \/ StreamEnd(1)
  \/ NextDay

SpecSeq == InitSeq /\ [][NextSeq]_vars

(***************************************************************************)
(* NCalls metered calls, each on its own connection, all in flight at      *)
(* once, for one identity whose usageCount is 0.                           *)
(***************************************************************************)
MeterSlots == 1..NCalls

MeterU1Configs == {FreeWithKey(KLongA, 0, 1), ProWithKey("u1", KGen1, 0, 1)}

InitMeter ==
  /\ procs = [p \in MeterSlots |-> IdleProc]
  /\ \E c1 \in MeterU1Configs : StoreIs(c1, Unknown)

MeterRequests ==
  { [endpoint |-> "process-code", api_key |-> Str(KLongA), selectedModel |-> "deepseek-r1",
     userApiKey |-> Str(<<"o", "r">>), body |-> BodyOK],
    [endpoint |-> "optimize-files", api_key |-> Str(KGen1), selectedModel |-> "gpt5-mini",
     userApiKey |-> Undef, body |-> BodyOK] }

NextMeter ==
  \/ \E p \in MeterSlots, k \in {Str(KLongA), Str(KGen1)} :
       procs[p].pc = "idle" /\ UpdateCountStart(p, k)
  \/ \E p \in MeterSlots : UpdateCountAuth(p)
  \/ \E p \in MeterSlots : UpdateCountRpc(p)
  \/ \E r \in MeterRequests :
       /\ procs[1].pc = "idle"
       /\ StreamStart(1, r.endpoint, r.api_key, r.selectedModel, r.userApiKey, r.body)
  \/ StreamAuth(1)
  \/ StreamRpc(1)
  \/ StreamCreate(1)
  \/ StreamChunk(1, <<"{", "f", ":", "[", "]", "}">>)
  \/ StreamBreak(1)
  \/ StreamEnd(1)
  \/ NextDay

SpecMeter == InitMeter /\ [][NextMeter]_vars

(***************************************************************************)
(* The order of the events of one response.                                *)
(***************************************************************************)
Times(ev, t) == Cardinality({i \in DOMAIN ev : ev[i] = t})

Rank(t) ==
  CASE t = "connected" -> 0
    [] t = "status"    -> 1
    [] t = "chunk"     -> 2
    [] t = "final"     -> 3
    [] t = "complete"  -> 4
    [] t = "end"       -> 5
    [] OTHER           -> 6

\* connected, status*, chunk*, final, complete?, end
PlainOrder(ev) ==
  /\ Len(ev) >= 3
  /\ \A i \in 1..(Len(ev) - 1) : Rank(ev[i]) <= Rank(ev[i + 1])
  /\ Times(ev, "connected") = 1
  /\ Times(ev, "final") = 1
  /\ Times(ev, "end") = 1
  /\ Times(ev, "complete") <= 1
  /\ Times(ev, "error") = 0

\* connected, status+, chunk*, status, final, complete, end
ProgressOrder(ev) ==
  LET n == Len(ev)
  IN  /\ n >= 6
      /\ ev[1] = "connected"
      /\ ev[n] = "end"
      /\ ev[n - 1] = "complete"
      /\ ev[n - 2] = "final"
      /\ ev[n - 3] = "status"
      /\ \E k \in 2..(n - 4) :
           /\ \A i \in 2..k : ev[i] = "status"
           /\ \A i \in (k + 1)..(n - 4) : ev[i] = "chunk"

Streams == {p \in DOMAIN procs : procs[p].op = "stream" /\ procs[p].pc = "done"}

Succeeded(pr) == pr.resp.success /\ pr.fail = "none"

C2_ErrorThenEnd ==
  \A p \in Streams :
    LET pr == procs[p]
        n  == Len(pr.events)
    IN  (pr.fail # "none" /\ pr.headers = "event-stream") =>
          /\ n >= 3
          /\ pr.events[1] = "connected"
          /\ pr.events[n] = "end"
          /\ pr.events[n - 1] = "error"
          /\ Times(pr.events, "error") = 1
          /\ Times(pr.events, "end") = 1
          /\ Times(pr.events, "final") = 0
          /\ Times(pr.events, "complete") = 0
          /\ pr.closed
          /\ pr.status = 200
          /\ ~pr.resp.success

\* a request whose text could not be extracted, after chunk events were sent
C2_Witness ==
  \E p \in Streams :
    /\ procs[p].fail = "extraction"
    /\ procs[p].headers = "event-stream"
    /\ Times(procs[p].events, "chunk") >= 1

\* C10 as stated, for the requests that reach the gate or should: a request
\* for deepseek-r1 whose userApiKey is missing, not a string or blank, and
\* that is not rejected for its api_key, its other fields, the store or an
\* unknown key, is authenticated, and if the caller is on the free plan it is
\* denied by the gate with the reason that names userApiKey as required.
C10_NeedsOwnKey ==
  \A p \in Streams :
    LET pr == procs[p]
    IN  (/\ pr.model = "deepseek-r1"
         /\ NotAString(pr.uak)
         /\ pr.fail \notin {"validation", "store", "unknown_key"}) =>
          /\ pr.rec.found
          /\ pr.rec.plan = "free" =>
               /\ pr.fail = "policy"
               /\ pr.resp = PolicyGate("free", "deepseek-r1", pr.uak).resp
               /\ pr.resp.requiredField = "userApiKey"
               /\ pr.resp.availableModels = {}

(***************************************************************************)
(* Metering.                                                               *)
(***************************************************************************)
\* the rpc of this request ran and returned
RpcRan(pr) == pr.result # NoResult

Granted == {p \in DOMAIN procs : procs[p].result.success}

\* C4: NCalls metered calls for one identity, in flight together, starting
\* from usageCount 0 under a limit of at least NCalls and within one day: at
\* every moment usageCount is the number of calls granted so far, and once
\* every call has had its rpc answered all of them are granted, each was
\* returned a different count of 1..NCalls, and usageCount is NCalls.
C4_NoLostIncrement ==
  (today = 1 /\ plan_limits(users["u1"].plan) >= NCalls) =>
    /\ api_keys["u1"].count = Cardinality(Granted)
    /\ (\A p \in DOMAIN procs : procs[p].pc = "done" /\ RpcRan(procs[p])) =>
         /\ Granted = DOMAIN procs
         /\ {procs[p].result.count : p \in DOMAIN procs} = 1..NCalls
         /\ api_keys["u1"].count = NCalls
         /\ \A p \in DOMAIN procs :
              procs[p].op = "update" =>
                procs[p].status = 200 /\ procs[p].resp.count = procs[p].result.count

\* NCalls calls, a streaming request and update-count calls among them, were
\* in flight together and all were granted
C4_Witness ==
  /\ today = 1
  /\ Granted = DOMAIN procs
  /\ Cardinality(DOMAIN procs) = NCalls
  /\ procs[1].op = "stream"
  /\ \A p \in DOMAIN procs : procs[p].pc = "done"
  /\ \E p \in DOMAIN procs : procs[p].op = "update"
  /\ api_keys["u1"].count = NCalls

\* C7: when the rpc of a metered call is answered for a pro identity whose
\* last_reset_date is before today and whose count equals the plan limit,
\* the call is granted with count 1, and the store holds count 1 and today
\* as last_reset_date; update-count answers 200 with count 1.
C7_Rollover ==
  [][\A p \in DOMAIN procs :
       LET n == procs[p].rec.name
       IN  (/\ procs[p].pc = "rpc"
            /\ procs'[p].pc # "rpc"
            /\ procs'[p].fail # "store"
            /\ users[n].plan = "pro"
            /\ api_keys[n].last_reset_date < today
            /\ api_keys[n].count = ProLimit) =>
             /\ procs'[p].result.success
             /\ procs'[p].result.count = 1
             /\ procs'[p].result.remaining = ProLimit - 1
             /\ api_keys'[n].count = 1
             /\ api_keys'[n].last_reset_date = today
             /\ procs[p].op = "update" =>
                  /\ procs'[p].status = 200
                  /\ procs'[p].resp.success
                  /\ procs'[p].resp.count = 1]_vars

\* a call that found the count of a pro identity at the limit and was
\* granted with count 1
C7_Witness ==
  \E p \in DOMAIN procs :
    /\ procs[p].pc = "done"
    /\ procs[p].op = "update"
    /\ procs[p].rec.plan = "pro"
    /\ procs[p].rec.count = ProLimit
    /\ procs[p].result.success
    /\ procs[p].result.count = 1
    /\ api_keys[procs[p].rec.name].last_reset_date = today

(***************************************************************************)
(* The counter of the free plan, and the writers of usageCount.            *)
(***************************************************************************)
FreeIdentities ==
  {n \in Names : users[n].exists /\ users[n].plan = "free" /\ api_keys[n].exists}

\* C3 as stated: the usageCount of a free-plan identity never exceeds the
\* plan limit, and a metered call denied for a free-plan identity reports
\* remaining = 0.
C3_FreeCeiling ==
  /\ \A n \in FreeIdentities : api_keys[n].count <= FreeLimit
  /\ \A p \in DOMAIN procs :
       (procs[p].fail = "quota" /\ procs[p].rec.plan = "free") =>
         procs[p].resp.remaining = 0

\* the step in which the rpc of slot p is answered by the store
RpcStep(p, n) ==
  /\ procs[p].pc = "rpc"
  /\ procs'[p].pc # "rpc"
  /\ procs[p].rec.name = n
  /\ api_keys'[n] = increment_api_count(n).row

\* C5 as stated: every change of a stored usageCount is made by the atomic
\* increment_api_count operation.
C5_OnlyAtomicIncrement ==
  [][\A n \in Names :
       (api_keys[n].exists /\ api_keys'[n].count # api_keys[n].count) =>
         \E p \in DOMAIN procs : RpcStep(p, n)]_vars

\* the operations C6 lists
LifetimeOps == {"update", "stream", "delete", "generate", "userauth"}

\* C6 as stated: in a step of update-count, a streaming request,
\* delete-api-key, generate-api-key or handle-user-auth, or when the date
\* changes, the usageCount of an identity that is and stays on the free plan
\* does not decrease.
C6_FreeNeverDecreases ==
  [][\A n \in Names :
       (/\ n \in FreeIdentities
        /\ users'[n].plan = "free"
        /\ \A p \in DOMAIN procs :
             procs'[p] # procs[p] => procs'[p].op \in LifetimeOps) =>
         api_keys'[n].count >= api_keys[n].count]_vars

(***************************************************************************)
(* Authentication.                                                         *)
(***************************************************************************)
\* the step in which findApiKeyRecord answers the request of slot p
AuthStep(p) ==
  /\ procs[p].pc = "auth"
  /\ procs'[p].pc # "auth"
  /\ procs'[p].fail # "store"

\* C8 as stated: after delete-api-key succeeded for an identity and until
\* generate-api-key issues a secret for it again, an authentication that
\* presents the deleted secret fails as an invalid key.
C8_RevokedFails ==
  [][\A p \in DOMAIN procs :
       (AuthStep(p) /\ \E n \in Names : revoked[n] # NoKey /\ revoked[n] = procs[p].key) =>
         procs'[p].fail = "unknown_key"]_vars

\* C9 as stated: findApiKeyRecord returns a record only if the secret of
\* that record was issued for exactly the plaintext presented.
C9_ExactPlaintext ==
  [][\A p \in DOMAIN procs :
       (AuthStep(p) /\ procs'[p].rec.found) =>
         plain[procs'[p].rec.name] = procs[p].key]_vars

(***************************************************************************)
(* callAIModel on its own: a route handler that has validated, metered and *)
(* announced the request calls it with any plan, model and userApiKey.     *)
(***************************************************************************)
CallPlans  == {"free", "pro", "team"}
CallModels == {"deepseek-r1", "gpt5-mini", "other"}
CallKeys   == {Undef, Str(<<>>), Str(<<"o", "r">>)}

\* the handler at the call of callAIModel(prompt, model, res, userPlan, userApiKey)
CallProc(userPlan, model, userApiKey) ==
  [setupSSEHeaders(IdleProc) EXCEPT
     !.op = "stream", !.pc = "call", !.endpoint = "process-code", !.model = model,
     !.uak = userApiKey,
     !.rec = [found |-> TRUE, name |-> "u1", plan |-> userPlan, count |-> 0],
     !.result = [success |-> TRUE, count |-> 1, limit |-> FreeLimit,
                 remaining |-> FreeLimit - 1],
     !.events = <<"connected", "status", "status", "status", "status">>]

InitCall ==
  /\ StoreIs(FreeWithKey(KLongA, 1, 1), Unknown)
  /\ \E userPlan \in CallPlans, model \in CallModels, userApiKey \in CallKeys :
       procs = [p \in {1} |-> CallProc(userPlan, model, userApiKey)]

NextCall ==
  \/ CallAIModel(1)
  \/ StreamCreate(1)
  \/ \E c \in SeqFragments : StreamChunk(1, c)
  \/ StreamBreak(1)
  \/ StreamEnd(1)
  \/ ClientDisconnect(1)

SpecCall == InitCall /\ [][NextCall]_vars

\* the arguments for which callAIModel may contact a provider
MayCall(pr) ==
  \/ pr.rec.plan = "free" /\ pr.model = "deepseek-r1" /\ ~Falsy(pr.uak)
  \/ pr.rec.plan # "free" /\ pr.model = "gpt5-mini"

\* C11: callAIModel calls chat.completions.create only for (free,
\* deepseek-r1, userApiKey present) or (plan not free, gpt5-mini), and then
\* once; for every other combination it has made no upstream call, the
\* request ends with one error event and end, and for a model name other
\* than deepseek-r1 and gpt5-mini the error names both supported models.
C11_CallOnlyWhenAllowed ==
  \A p \in DOMAIN procs :
    LET pr == procs[p]
        n  == Len(pr.events)
    IN  (pr.op = "stream" /\ pr.pc # "call") =>
          /\ pr.calls = (IF MayCall(pr) THEN 1 ELSE 0)
          /\ ~MayCall(pr) =>
               /\ pr.pc = "done"
               /\ pr.fail \in {"gpt5_pro_only", "pro_should_use_gpt5",
                               "openrouter_key_required", "unsupported_model"}
               /\ pr.events[n - 1] = "error" /\ pr.events[n] = "end"
               /\ Times(pr.events, "chunk") = 0
               /\ pr.resp.error = pr.fail
               /\ (pr.model \notin {"deepseek-r1", "gpt5-mini"}) <=>
                    (pr.resp.availableModels = {"deepseek-r1", "gpt5-mini"})

\* callAIModel was called for a pro user with deepseek-r1 and threw
C11_Witness ==
  \E p \in DOMAIN procs :
    /\ procs[p].pc = "done"
    /\ procs[p].rec.plan = "pro"
    /\ procs[p].model = "deepseek-r1"
    /\ procs[p].fail = "pro_should_use_gpt5"
    /\ procs[p].calls = 0

(***************************************************************************)
(* callDeepSeekAPI of the earlier server: the dispatcher that fails over   *)
(* from one OpenRouter credential to the next.                             *)
(***************************************************************************)
NumClients == 5

\* String.prototype.toLowerCase, word by word
LowerWord(w) ==
  CASE w = "Rate"  -> "rate"
    [] w = "Limit" -> "limit"
    [] w = "Quota" -> "quota"
    [] OTHER       -> w

toLowerCase(message) == [i \in DOMAIN message |-> LowerWord(message[i])]

\* message.includes(words)
Includes(message, words) ==
  \E i \in 0..(Len(message) - Len(words)) :
    \A j \in 1..Len(words) : message[i + j] = words[j]

\* a variant that takes every error for a rate limit
isRateLimitAlways(error) == error = error

\* the test of the catch block of one attempt
isRateLimit(error) ==
  \/ Includes(toLowerCase(error.message), <<"rate", "limit">>)
  \/ Includes(toLowerCase(error.message), <<"quota">>)
  \/ Includes(toLowerCase(error.message), <<"429">>)
  \/ error.status = 429

\* new Error(`All DeepSeek API keys failed. Last error: ${lastError?.message || 'Unknown error'}`)
AllKeysFailed(lastError) ==
  [status  |-> 0,
   message |-> <<"All", "DeepSeek", "API", "keys", "failed.", "Last", "error:">>
                 \o (IF lastError.message = <<>> THEN <<"Unknown", "error">>
                     ELSE lastError.message)]

\* the errors an attempt fails with
UpstreamErrors ==
  { [status |-> 429, message |-> <<"Too", "Many", "Requests">>],
    [status |-> 0,   message |-> <<"Rate", "Limit", "exceeded">>],
    [status |-> 403, message |-> <<"Quota", "exhausted">>],
    [status |-> 0,   message |-> <<"status", "429">>],
    [status |-> 401, message |-> <<"Invalid", "credentials">>],
    [status |-> 0,   message |-> <<"Connection", "error">>] }

\* callDeepSeekAPI throws error to its caller
Throw(pr, error) == [pr EXCEPT !.pc = "thrown", !.thrown = error]

\* a variant that goes through the list from its end
BeginAttemptReversed(pr, i) ==
  [pr EXCEPT !.pc = "d_create", !.tried = Append(@, NumClients + 1 - i), !.calls = @ + 1]

\* client.chat.completions.create is called on openrouterClients[i - 1]
BeginAttempt(pr, i) ==
  [pr EXCEPT !.pc = "d_create", !.tried = Append(@, i), !.calls = @ + 1]

\* a variant that gives up after the first credential that is rate limited
OnAttemptErrorGiveUp(pr, error) ==
  LET failed == [pr EXCEPT !.lastError = error]
  IN  IF pr.model = "gpt5-mini" \/ ~isRateLimit(error) THEN Throw(failed, error)
      ELSE Throw(failed, AllKeysFailed(error))

\* the catch block of an attempt, the rest of the loop and what follows it
OnAttemptError(pr, error) ==
  LET failed == [pr EXCEPT !.lastError = error]
      i      == Len(pr.tried)
  IN  IF pr.model = "gpt5-mini" THEN Throw(failed, error)
      ELSE IF ~isRateLimit(error) THEN Throw(failed, error)
      ELSE IF i < NumClients THEN BeginAttempt(failed, i + 1)
      ELSE Throw(failed, AllKeysFailed(error))

\* a variant that keeps one fullResponse for all attempts
OpenStreamShared(pr) == [pr EXCEPT !.pc = "d_stream", !.frags = <<>>]

\* create answered with a stream: let fullResponse = ''
OpenStream(pr) == [pr EXCEPT !.pc = "d_stream", !.text = <<>>, !.frags = <<>>]

\* callDeepSeekAPI(prompt, model, plan, res) up to its first await
callDeepSeekAPI(pr, model, plan) ==
  LET rq == [pr EXCEPT !.op = "dispatch", !.model = model,
                       !.rec = [NoRecord EXCEPT !.plan = plan]]
  IN  IF plan = "free" /\ model # "deepseek-r1"
      THEN Throw(rq, [status |-> 0, message |-> <<"Free", "plan", "model">>])
      ELSE IF plan # "free" /\ model = "deepseek-r1"
      THEN Throw(rq, [status |-> 0, message |-> <<"DeepSeek", "free", "only">>])
      ELSE IF model = "deepseek-r1" THEN BeginAttempt(rq, 1)
      ELSE IF model = "gpt5-mini" THEN [rq EXCEPT !.pc = "d_create", !.calls = @ + 1]
      ELSE Throw(rq, [status |-> 0, message |-> <<"Unsupported", "model">>])

\* a route handler calls callDeepSeekAPI(prompt, model, plan, res)
DispatchStart(p, model, plan) ==
  /\ procs[p].pc = "idle"
  /\ procs' = [procs EXCEPT ![p] = callDeepSeekAPI(@, model, plan)]
  /\ UNCHANGED <<users, api_keys, today, ops, plain, revoked, generated>>

\* chat.completions.create answers: a stream, or it throws
DispatchCreate(p) ==
  /\ procs[p].op = "dispatch"
  /\ procs[p].pc = "d_create"
  /\ \/ procs' = [procs EXCEPT ![p] = OpenStream(@)]
     \/ \E error \in UpstreamErrors :
          procs' = [procs EXCEPT ![p] = OnAttemptError(@, error)]
  /\ UNCHANGED <<users, api_keys, today, ops, plain, revoked, generated>>

\* one pass of the for-await loop of the attempt
DispatchChunk(p, content) ==
  /\ procs[p].op = "dispatch"
  /\ procs[p].pc = "d_stream"
  /\ Len(procs[p].frags) < MaxChunks
  /\ procs' = [procs EXCEPT ![p] =
       IF content = <<>> THEN [@ EXCEPT !.frags = Append(@, content)]
       ELSE [@ EXCEPT !.frags = Append(@, content), !.text = @ \o content,
                      !.events = Append(@, "chunk")]]
  /\ UNCHANGED <<users, api_keys, today, ops, plain, revoked, generated>>

\* the stream of the attempt throws
DispatchBreak(p) ==
  /\ procs[p].op = "dispatch"
  /\ procs[p].pc = "d_stream"
  /\ \E error \in UpstreamErrors :
       procs' = [procs EXCEPT ![p] = OnAttemptError(@, error)]
  /\ UNCHANGED <<users, api_keys, today, ops, plain, revoked, generated>>

\* the stream of the attempt ends: return fullResponse
DispatchEnd(p) ==
  /\ procs[p].op = "dispatch"
  /\ procs[p].pc = "d_stream"
  /\ procs' = [procs EXCEPT ![p].pc = "returned"]
  /\ UNCHANGED <<users, api_keys, today, ops, plain, revoked, generated>>

InitFailover ==
  /\ StoreIs(FreeWithKey(KLongA, 1, 1), Unknown)
  /\ procs = [p \in {1} |-> IdleProc]

NextFailover ==
  \/ \E model \in CallModels, plan \in {"free", "pro"} : DispatchStart(1, model, plan)
  \/ DispatchCreate(1)
  \/ \E c \in SeqFragments : DispatchChunk(1, c)
  \/ DispatchBreak(1)
  \/ DispatchEnd(1)

SpecFailover == InitFailover /\ [][NextFailover]_vars

(***************************************************************************)
(* The failover dispatcher.                                                *)
(***************************************************************************)
\* status 429, or a message with 'rate limit', 'quota' or '429' in any case
RateLimitClass(error) ==
  \/ error.status = 429
  \/ \E i \in DOMAIN error.message :
       \/ error.message[i] \in {"quota", "Quota", "429"}
       \/ /\ i < Len(error.message)
          /\ error.message[i] \in {"rate", "Rate"}
          /\ error.message[i + 1] \in {"limit", "Limit"}

Dispatchers == {p \in DOMAIN procs : procs[p].op = "dispatch"}

\* an attempt fails in this step
AttemptFails(p) ==
  /\ procs[p].op = "dispatch"
  /\ procs[p].pc \in {"d_create", "d_stream"}
  /\ procs'[p].pc \in {"d_create", "thrown"}

\* C12: the dispatcher tries the credentials 1, 2, ... in order, one attempt
\* each; when its last failure is rate-limit-class and it throws, it has made
\* exactly NumClients attempts and throws one aggregated error whose message
\* ends with the message of the last underlying error; it throws the
\* aggregated error in no other case.
C12_OneAttemptPerCredential ==
  \A p \in Dispatchers :
    LET pr == procs[p]
        aggregated == <<"All", "DeepSeek", "API", "keys", "failed.", "Last", "error:">>
                        \o pr.lastError.message
    IN  pr.model = "deepseek-r1" =>
          /\ pr.tried = [i \in 1..Len(pr.tried) |-> i]
          /\ Len(pr.tried) <= NumClients
          /\ pr.calls = Len(pr.tried)
          /\ (pr.pc = "thrown" /\ RateLimitClass(pr.lastError)) =>
               /\ Len(pr.tried) = NumClients
               /\ pr.thrown.message = aggregated
          /\ (pr.pc = "thrown" /\ pr.thrown.message = aggregated) =>
               /\ Len(pr.tried) = NumClients
               /\ RateLimitClass(pr.lastError)

\* every credential was rate limited, the last one in the middle of its stream
C12_Witness ==
  \E p \in Dispatchers :
    /\ procs[p].pc = "thrown"
    /\ Len(procs[p].tried) = NumClients
    /\ RateLimitClass(procs[p].lastError)
    /\ procs[p].text # <<>>

\* C13: when an attempt fails with an error that is not rate-limit-class,
\* the dispatcher throws that very error in the same step and calls no
\* further credential.
C13_OtherErrorsRethrown ==
  [][\A p \in DOMAIN procs :
       (AttemptFails(p) /\ ~RateLimitClass(procs'[p].lastError)) =>
         /\ procs'[p].pc = "thrown"
         /\ procs'[p].thrown = procs'[p].lastError
         /\ procs'[p].tried = procs[p].tried
         /\ procs'[p].calls = procs[p].calls]_vars

\* the second credential failed with an error that is not rate-limit-class
\* and three credentials were never tried
C13_Witness ==
  \E p \in Dispatchers :
    /\ procs[p].pc = "thrown"
    /\ procs[p].tried = <<1, 2>>
    /\ ~RateLimitClass(procs[p].lastError)
    /\ procs[p].thrown = procs[p].lastError
    /\ procs[p].lastError # NoError

RECURSIVE Concat(_)
Concat(parts) == IF parts = <<>> THEN <<>> ELSE Head(parts) \o Concat(Tail(parts))

\* C14: the text the dispatcher returns is the concatenation of the
\* fragments received during the attempt that succeeded.
C14_OnlySuccessfulAttempt ==
  \A p \in Dispatchers :
    procs[p].pc = "returned" => procs[p].text = Concat(procs[p].frags)

\* the dispatcher returned after an earlier attempt had failed in the middle
\* of its stream
C14_Witness ==
  \E p \in Dispatchers :
    /\ procs[p].pc = "returned"
    /\ Len(procs[p].tried) >= 2
    /\ procs[p].text # <<>>
    /\ Times(procs[p].events, "chunk") >
         Cardinality({i \in DOMAIN procs[p].frags : procs[p].frags[i] # <<>>})

(***************************************************************************)
(* The chunk events of one callAIModel call.                               *)
(***************************************************************************)
Receiving == {p \in DOMAIN procs : procs[p].op = "stream" /\ procs[p].pc = "streaming"}

WithContent(frags) == SelectSeq(frags, LAMBDA content : content # <<>>)

\* C15 as stated: every fragment the provider yielded has produced one
\* chunk event.
C15_EveryFragmentChunked ==
  \A p \in Receiving : Times(procs[p].events, "chunk") = Len(procs[p].frags)

\* C15: the chunk events sent are exactly the fragments that carry content,
\* one event each and in arrival order (a fragment without content produces
\* no event), and the accumulated text is the concatenation, in order, of
\* the contents of the chunk events sent.
C15_ContentFragmentsChunked ==
  \A p \in Receiving :
    /\ procs[p].sent = WithContent(procs[p].frags)
    /\ Times(procs[p].events, "chunk") = Len(procs[p].sent)
    /\ procs[p].text = Concat(procs[p].sent)

\* two different fragments with content were received
C15_Witness ==
  \E p \in Receiving :
    /\ Len(procs[p].sent) = 2
    /\ procs[p].sent[1] # procs[p].sent[2]
    /\ procs[p].frags = procs[p].sent

(***************************************************************************)
(* Extraction of the document from the model's reply: the handler after    *)
(* callAIModel, applied to every reply of a bounded set.                   *)
(***************************************************************************)
RawPrefixes == {<<>>, <<"p", " ">>, <<"F", " ">>, <<"F", "p", "E", " ">>}

RawBodies ==
  { <<>>, <<"p">>, <<"1">>, <<"n">>, <<"k">>, <<"[", "1", "]">>, <<"[", "1", ",", "]">>,
    <<"{", "}">>, <<"{", "k", ":", "1">>,
    <<"{", "f", ":", "[", "]", "}">>, <<"{", "f", ":", "[", "]", ",", " ", "}">>,
    <<"{", "f", ":", "1", "}">>, <<"{", "k", ":", "1", ",", "}">>,
    <<"{", "k", ":", "{", "}", "}">>,
    <<"{", "k", ":", "{", "k", ":", "1", ",", "}", "}">>,
    <<"{", "f", ":", "[", "{", "k", ":", "1", "}", ",", "]", "}">>,
    <<"{", "f", ":", "1", ",", "f", ":", "[", "1", ",", "]", "}">> }

RawSuffixes == {<<>>, <<" ", "E">>, <<" ", "p">>, <<"}">>}

RawTexts == {a \o b \o c : a \in RawPrefixes, b \in RawBodies, c \in RawSuffixes}

\* callAIModel is about to return the reply, received as one fragment
InitExtract ==
  /\ StoreIs(FreeWithKey(KLongA, 1, 1), Unknown)
  /\ \E raw \in RawTexts :
       procs = [p \in {1} |->
                  OnChunk([CallProc("free", "deepseek-r1", Str(<<"o", "r">>))
                             EXCEPT !.pc = "streaming", !.calls = 1], raw)]

NextExtract == StreamEnd(1)

SpecExtract == InitExtract /\ [][NextExtract]_vars

\* the handler of p goes through parseAIResponse in this step
Extracts(p) ==
  /\ procs[p].op = "stream"
  /\ procs[p].pc = "streaming"
  /\ procs'[p].pc = "done"
  /\ procs'[p].fail # "upstream"

\* the handler went on with doc as the parsed document
Extracted(out, doc) ==
  /\ out.fail # "extraction"
  /\ out.resp.success => out.resp.data = doc

\* the candidate span: the fenced interior, else the span of the braces
Candidate(raw) ==
  IF FencedInterior(raw) # <<>> THEN FencedInterior(raw) ELSE BraceSpan(raw)

\* the candidate with the commas before '}' and before ']' dropped
Repaired(c) == DropCommasBefore(DropCommasBefore(c, "}"), "]")

\* C16: when the fenced interior parses the handler goes on with it; when
\* there is none or it does not parse, and the span from the first '{' to
\* the last '}' parses, the handler goes on with that span.
C16_StrategiesInOrder ==
  [][\A p \in DOMAIN procs :
       Extracts(p) =>
         LET raw == procs[p].text
             c1  == FencedInterior(raw)
             c2  == BraceSpan(raw)
             ok1 == c1 # <<>> /\ JSONParses(c1)
         IN  /\ ok1 => Extracted(procs'[p], c1)
             /\ (~ok1 /\ c2 # <<>> /\ JSONParses(c2)) => Extracted(procs'[p], c2)]_vars

\* C17: when the candidate does not parse and the candidate with its
\* trailing commas dropped does, the request succeeds with that repaired
\* document.
C17_TrailingCommasRepaired ==
  [][\A p \in DOMAIN procs :
       Extracts(p) =>
         LET c == Candidate(procs[p].text)
         IN  (c # <<>> /\ ~JSONParses(c) /\ JSONParses(Repaired(c))) =>
               /\ procs'[p].resp.success
               /\ procs'[p].resp.data = Repaired(c)]_vars

\* C18: when the reply has no braces, or neither the candidate nor its
\* repaired form parses, the request ends with an extraction error whose
\* event carries the original parse error, the error of the repair attempt
\* and the preview of the reply.
C18_ExtractionErrorDetails ==
  [][\A p \in DOMAIN procs :
       Extracts(p) =>
         LET raw == procs[p].text
             c   == Candidate(raw)
         IN  (\/ FirstOf(raw, {"{", "}"}, 1) = 0
              \/ ~JSONParses(c) /\ ~JSONParses(Repaired(c))) =>
               /\ procs'[p].fail = "extraction"
               /\ {"originalError", "fallbackError", "responsePreview"}
                    \subseteq procs'[p].resp.details]_vars

\* C19: when parseAIResponse returns a document without a files array, the
\* final event carries an empty files array and the request ends with
\* final, complete, end and no error event.
C19_FilesCoerced ==
  [][\A p \in DOMAIN procs :
       Extracts(p) =>
         LET parsed == parseAIResponse(procs[p].text)
         IN  (/\ parsed.ok
              /\ ~(/\ DocKind(parsed.doc) = "object"
                   /\ FilesIsArray(parsed.doc, SkipWs(parsed.doc, 1) + 1, FALSE))) =>
               /\ procs'[p].resp.success
               /\ procs'[p].resp.files = "empty"
               /\ Times(procs'[p].events, "error") = 0
               /\ Times(procs'[p].events, "final") = 1]_vars

(***************************************************************************)
(* The client closes the connection during streaming.                      *)
(***************************************************************************)
\* C20: once the client has disconnected, the handler writes no further
\* event to the response and consumes no further fragment of the upstream
\* stream.
C20_QuietAfterDisconnect ==
  [][\A p \in DOMAIN procs :
       procs[p].gone >= 0 =>
         /\ procs'[p].events = procs[p].events
         /\ procs'[p].frags = procs[p].frags \/ procs'[p].pc = "done"]_vars

(***************************************************************************)
(* Store failures and quota denials.                                       *)
(***************************************************************************)
Answered == {p \in DOMAIN procs : procs[p].pc = "done"}

\* C21: a store failure during the lookup or the increment ends update-count
\* with status 500 and a streaming request with an error event that carries
\* no quota figures; it is never answered as success nor with the body of a
\* quota denial; a quota denial of update-count has status 429.
C21_StoreFailureDistinct ==
  \A p \in Answered :
    LET pr == procs[p]
    IN  /\ (pr.fail = "store" /\ pr.op = "update") => pr.status = 500
        /\ (pr.fail = "store" /\ pr.op = "stream") =>
             /\ Times(pr.events, "error") = 1
             /\ Times(pr.events, "final") = 0
        /\ pr.fail = "store" =>
             /\ ~pr.resp.success
             /\ pr.resp.error \in {"store error", "store"}
             /\ pr.resp.limit = 0
             /\ ~pr.result.success
        /\ (pr.fail = "quota" /\ pr.op = "update") =>
             /\ pr.status = 429
             /\ pr.resp.error = "limit reached"

\* the increment of an authenticated update-count call failed in the store
C21_Witness ==
  \E p \in Answered :
    /\ procs[p].op = "update"
    /\ procs[p].fail = "store"
    /\ procs[p].rec.found
    /\ procs[p].status = 500

(***************************************************************************)
(* The stages of a streaming request.                                      *)
(***************************************************************************)
Streaming == {p \in DOMAIN procs : procs[p].op = "stream"}

\* the model access policy of the gate admits the request of pr
Admitted(pr) ==
  /\ ~(pr.model = "gpt5-mini" /\ pr.rec.plan = "free")
  /\ (pr.rec.plan = "free" /\ pr.model = "deepseek-r1") =>
       (pr.uak.t = "string" /\ Trim(pr.uak.s) # <<>>)

ReachesProvider(p) ==
  /\ procs'[p].op = "stream"
  /\ procs'[p].pc = "create"
  /\ procs[p].pc # "create"

\* C23: a streaming request calls the provider only in the step in which its
\* own increment_api_count call, made for the identity it authenticated as,
\* is granted: that step changes the identity's row as the increment does
\* and returns the stored count; so every call of the provider is paired
\* with a successful increment of its own.
C23_QuotaBeforeInvocation ==
  [][\A p \in DOMAIN procs :
       ReachesProvider(p) =>
         LET n == procs[p].rec.name
         IN  /\ procs[p].op = "stream" /\ procs[p].pc = "rpc"
             /\ procs[p].rec.found
             /\ increment_api_count(n).res.success
             /\ api_keys'[n] = increment_api_count(n).row
             /\ procs'[p].result = increment_api_count(n).res
             /\ procs'[p].result.count = api_keys'[n].count
             /\ procs'[p].calls = 1]_vars

\* a request is calling the provider after the second increment of the day
\* for its identity was granted
C23_Witness ==
  \E p \in Streaming :
    /\ procs[p].pc = "create"
    /\ procs[p].calls = 1
    /\ procs[p].result.success
    /\ procs[p].result.count = 2
    /\ api_keys[procs[p].rec.name].count = 2

(***************************************************************************)
(* The order in which the dispatcher goes through its credentials.         *)
(***************************************************************************)
\* C24: the first credential tried in a call is the first of the list; a
\* further credential is tried only in the step in which the attempt with
\* the credential before it failed with a rate-limit-class error, and it is
\* the next of the list, so none is tried twice; when an attempt completes
\* the call returns in that step and no credential is tried afterwards.
C24_ListOrder ==
  [][\A p \in DOMAIN procs :
       procs'[p].op = "dispatch" =>
         LET was == procs[p].tried
             now == procs'[p].tried
         IN  /\ now # was =>
                  \/ /\ procs[p].pc = "idle"
                     /\ now = <<1>>
                  \/ /\ procs[p].pc \in {"d_create", "d_stream"}
                     /\ was # <<>>
                     /\ now = Append(was, was[Len(was)] + 1)
                     /\ was[Len(was)] < NumClients
                     /\ RateLimitClass(procs'[p].lastError)
                     /\ procs'[p].pc = "d_create"
             /\ \A i, j \in DOMAIN now : now[i] = now[j] => i = j
             /\ procs[p].pc = "returned" => procs'[p] = procs[p]
             /\ procs'[p].pc = "returned" =>
                  /\ now = was
                  /\ procs'[p].calls = procs[p].calls
                  /\ procs[p].pc \in {"d_stream", "returned"}]_vars

\* the third credential completed after the first two were rate limited
C24_Witness ==
  \E p \in Dispatchers :
    /\ procs[p].pc = "returned"
    /\ procs[p].tried = <<1, 2, 3>>
    /\ procs[p].calls = 3

(***************************************************************************)
(* Requests rejected before the increment.                                 *)
(***************************************************************************)
\* the handler of p, in this step, awaits the lookup or rejects the request
\* for its input or for an unknown key
BeforeMetering(p) ==
  /\ procs'[p] # procs[p]
  /\ procs'[p].op \in {"stream", "update"}
  /\ \/ procs'[p].pc = "auth"
     \/ procs'[p].pc = "done" /\ procs'[p].fail \in {"validation", "unknown_key"}

\* C25: every step of a streaming request or update-count call up to its
\* rejection for a missing api_key, a missing selectedModel, a missing
\* required field or an unknown API key leaves every usageCount as it was,
\* and the rejected request has made no increment and no upstream call.
C25_RejectedUncharged ==
  [][\A p \in DOMAIN procs :
       BeforeMetering(p) =>
         /\ \A n \in Names : api_keys'[n] = api_keys[n]
         /\ ~RpcRan(procs'[p])
         /\ procs'[p].calls = 0
         /\ Times(procs'[p].events, "chunk") = 0]_vars

\* the last of MaxOps requests, a streaming request with an unknown key or
\* an update-count call without a key, was rejected while an identity has
\* a usageCount of 1
C25_Witness ==
  \E p \in Answered :
    /\ \/ procs[p].op = "stream" /\ procs[p].fail = "unknown_key"
       \/ procs[p].op = "update" /\ procs[p].fail = "validation"
    /\ \E n \in Names : api_keys[n].exists /\ api_keys[n].count = 1
    /\ ops = MaxOps

(***************************************************************************)
(* Requests denied by the model access policy, and requests that fail      *)
(* after their increment.                                                  *)
(***************************************************************************)
PolicyDenials ==
  {"policy", "pro_should_use_gpt5", "gpt5_pro_only", "openrouter_key_required",
   "unsupported_model"}

\* C26 as stated: a request denied because the model is not permitted for
\* the caller's plan or is not a supported model has made no increment.
C26_DeniedUncharged ==
  \A p \in Streams :
    procs[p].fail \in PolicyDenials => ~procs[p].result.success

PostIncrementFailures == {"post_validation", "upstream", "extraction", "type_error"}

\* C27: a streaming request changes the store only in the one step in which
\* its rpc is answered, and then as increment_api_count does; once the rpc
\* was answered no later step of the request awaits it again, changes a
\* usageCount or changes the result it was given, whether the request
\* succeeds or fails.
C27_IncrementStays ==
  [][\A p \in DOMAIN procs :
       (procs'[p].op = "stream" /\ procs'[p] # procs[p]) =>
         LET n == procs[p].rec.name
         IN  /\ api_keys' # api_keys =>
                  /\ procs[p].pc = "rpc" /\ ~RpcRan(procs[p]) /\ RpcRan(procs'[p])
                  /\ api_keys' = [api_keys EXCEPT ![n] = increment_api_count(n).row]
             /\ (procs[p].op = "stream" /\ RpcRan(procs[p])
                   /\ procs[p].pc \notin {"idle", "done"}) =>
                  /\ api_keys' = api_keys
                  /\ procs'[p].result = procs[p].result
                  /\ procs'[p].pc # "rpc"
             /\ (procs'[p].pc = "done" /\ procs'[p].result.success
                   /\ procs'[p].fail \in PostIncrementFailures) =>
                  api_keys'[n].count = procs'[p].result.count]_vars

\* a request failed at extraction after the second increment of the day for
\* its identity was granted, and the count is still 2
C27_Witness ==
  \E p \in Streams :
    /\ procs[p].fail = "extraction"
    /\ procs[p].result.success
    /\ procs[p].result.count = 2
    /\ api_keys[procs[p].rec.name].count = 2

(***************************************************************************)
(* Who changes the plan of a user.                                         *)
(***************************************************************************)
\* C28 as stated: the plan of a user that exists changes only in a step of a
\* payment webhook handler or of the subscription cancel endpoint.
C28_PlanOnlyByPayment ==
  [][\A n \in Names :
       (users[n].exists /\ users'[n].plan # users[n].plan) =>
         \E p \in DOMAIN procs :
           /\ procs[p].op \in {"webhook", "cancel"}
           /\ procs'[p] # procs[p]]_vars

(***************************************************************************)
(* The end of a response stream.                                           *)
(***************************************************************************)
\* C29: a streaming request that is over, whatever its outcome, has written
\* the end event exactly once, as its last event, and its response is
\* closed; a request that is not over has written no end event and its
\* response is open.
C29_EndOnceAndLast ==
  \A p \in Streaming :
    LET pr == procs[p]
        n  == Len(pr.events)
    IN  /\ pr.pc = "done" =>
             /\ n >= 2
             /\ pr.events[n] = "end"
             /\ Times(pr.events, "end") = 1
             /\ pr.closed
        /\ pr.pc # "done" =>
             /\ Times(pr.events, "end") = 0
             /\ ~pr.closed

\* the second request of the connection succeeded after a chunk event and
\* ended with the end event
C29_Witness ==
  \E p \in Streams :
    /\ procs[p].events[Len(procs[p].events)] = "end"
    /\ Succeeded(procs[p])
    /\ Times(procs[p].events, "chunk") >= 1
    /\ procs[p].closed
    /\ ops >= 2

\* C30: a response stream carries at most one final event and at most one
\* error event, and one that carries an error event carries neither a final
\* nor a complete event.
C30_FinalXorError ==
  \A p \in Streaming :
    LET ev == procs[p].events
    IN  /\ Times(ev, "final") <= 1
        /\ Times(ev, "error") <= 1
        /\ Times(ev, "error") = 1 => Times(ev, "final") = 0 /\ Times(ev, "complete") = 0
        /\ Times(ev, "final") = 1 => Times(ev, "error") = 0

\* a stream that carried chunk events ended with an error event
C30_Witness ==
  \E p \in Streams :
    /\ Times(procs[p].events, "chunk") >= 1
    /\ Times(procs[p].events, "error") = 1
    /\ procs[p].fail = "extraction"

(***************************************************************************)
(* Progress: one connection on which streaming requests arrive one after   *)
(* the other, or one call of the failover dispatcher.  Every awaited store *)
(* call and upstream call eventually returns or fails, and an upstream     *)
(* stream eventually ends or breaks.                                       *)
(***************************************************************************)
InitLive ==
  /\ procs = [p \in {1} |-> IdleProc]
  /\ \E c1 \in MeterU1Configs : StoreIs(c1, Unknown)

LiveRequests ==
  MeterRequests \cup
  { [endpoint |-> "generate-custom", api_key |-> Str(KLongA), selectedModel |-> "other",
     userApiKey |-> Undef, body |-> BodyOK] }

UpstreamStep ==
  \/ \E c \in SeqFragments : StreamChunk(1, c)
  \/ StreamBreak(1)
  \/ StreamEnd(1)

DispatchStep ==
  \/ \E c \in SeqFragments : DispatchChunk(1, c)
  \/ DispatchBreak(1)
  \/ DispatchEnd(1)

NextLive ==
  \/ \E r \in LiveRequests :
       StreamStart(1, r.endpoint, r.api_key, r.selectedModel, r.userApiKey, r.body)
  \/ StreamAuth(1)
  \/ StreamRpc(1)
  \/ StreamCreate(1)
  \/ UpstreamStep
  \/ ClientDisconnect(1)
  \/ \E model \in CallModels, plan \in {"free", "pro"} : DispatchStart(1, model, plan)
  \/ DispatchCreate(1)
  \/ DispatchStep
  \/ NextDay

SpecLive ==
  /\ InitLive
  /\ [][NextLive]_vars
  /\ WF_vars(StreamAuth(1))
  /\ WF_vars(StreamRpc(1))
  /\ WF_vars(StreamCreate(1))
  /\ WF_vars(UpstreamStep)
  /\ WF_vars(DispatchCreate(1))
  /\ WF_vars(DispatchStep)

\* the request on the connection has opened its stream and is not over
Opened ==
  /\ procs[1].op = "stream"
  /\ procs[1].pc # "done"
  /\ procs[1].events # <<>>

\* the request on the connection wrote the end event last and closed
Ended ==
  /\ procs[1].op = "stream"
  /\ procs[1].pc = "done"
  /\ procs[1].closed
  /\ procs[1].events[Len(procs[1].events)] = "end"

\* C31: a request that has opened its stream eventually writes the end
\* event and closes the response; a call of the failover dispatcher never
\* makes more upstream attempts than there are credentials and eventually
\* returns or throws.
C31_EventuallyEnds ==
  /\ Opened ~> Ended
  /\ [](procs[1].op = "dispatch" => procs[1].calls <= NumClients)
  /\ (procs[1].op = "dispatch") ~> (procs[1].pc \in {"returned", "thrown"})

\* a request whose client had gone during streaming went on to send chunk
\* events, has written the end event and closed
C31_Witness ==
  /\ Ended
  /\ procs[1].chunks = 0
  /\ procs[1].gone >= 0
  /\ Times(procs[1].events, "chunk") >= 1

(***************************************************************************)
(* Two connections on which generate-api-key requests for one identity     *)
(* without an active secret are in flight together.                        *)
(***************************************************************************)
ProNoKey(n, d) ==
  [user |-> UserRow("pro", "active", n), row |-> KeyRow(NullKey, 0, d), plain |-> NoKey]

GenU1Configs == {Unknown, FreeNoKey(0), FreeNoKey(1), ProNoKey("u1", 1)}

InitGen ==
  /\ procs = [p \in Slots |-> IdleProc]
  /\ \E c1 \in GenU1Configs : StoreIs(c1, Unknown)

NextGen ==
  \/ \E p \in Slots, n \in {"u1", "none"}, k \in {Undef, Str(KLongA), Str(KLongB)} :
       procs[p].pc = "idle" /\ GenerateStart(p, n, k)
  \/ \E p \in Slots : GenerateUser(p)
  \/ \E p \in Slots : GenerateInsertUser(p)
  \/ \E p \in Slots : GenerateKey(p)
  \/ \E p \in Slots : GenerateWrite(p)

SpecGen == InitGen /\ [][NextGen]_vars

\* the generate-api-key requests that were answered with success
Issued == {p \in DOMAIN procs : procs[p].op = "generate" /\ procs[p].pc = "done"
                                   /\ procs[p].resp.success}

\* C32 as stated: of the generate-api-key requests that were in flight
\* together for one identity without an active secret at most one is
\* answered with success.
C32_OneIssuer ==
  \A p, q \in Issued : procs[p].name = procs[q].name => p = q

\* the generate-api-key requests answered with 400, 403 or 409
GenerateDenials ==
  {p \in DOMAIN procs : /\ procs[p].op = "generate"
                        /\ procs[p].pc = "done"
                        /\ procs[p].status \in {400, 403, 409}}

\* the users and api_keys tables are as some initial store has them
TablesUntouched ==
  \E c \in GenU1Configs :
    /\ users = [n \in Names |-> IF n = "u1" THEN c.user ELSE NoUser]
    /\ api_keys = [n \in Names |-> IF n = "u1" THEN c.row ELSE NoRow]

\* C33 as stated: when every generate-api-key request made so far was
\* answered with 400, 403 or 409, the users and api_keys tables are as they
\* were before the first of them.
C33_DenialsWriteNothing ==
  (\A p \in DOMAIN procs : procs[p].pc = "idle" \/ p \in GenerateDenials)
    => TablesUntouched

\* C34 as stated: the plaintext of an identity's secret matches the non-null
\* secret of no other identity, so findApiKeyRecord has at most one row to
\* return for it.
C34_SecretsDistinct ==
  \A n \in Names : plain[n] # NoKey => Cardinality(Matches(plain[n])) <= 1

(***************************************************************************)
(* POST /api/get-user-api-info                                             *)
(***************************************************************************)
maskedApiKey == "sk-abc123************************def456"

\* a variant that masks the stored secret itself: its first two characters
\* are shown
GetUserApiInfoDataPrefix(userName, userData, apiKeyData, limit, day) ==
  LET hasKey == apiKeyData.exists /\ ~apiKeyData.api_key.null
      currentCount ==
        IF ~hasKey THEN 0
        ELSE IF userData.plan = "free" THEN apiKeyData.count
        ELSE IF apiKeyData.last_reset_date # day THEN 0 ELSE apiKeyData.count
  IN  [name |-> userName,
       api_key |-> IF hasKey THEN SubSeq(apiKeyData.api_key.h, 1, 2) ELSE "null",
       limit |-> limit, count |-> currentCount, remaining |-> limit - currentCount,
       plan |-> userData.plan, subscription_status |-> userData.subscription_status,
       subscription_id |-> userData.subscription_id,
       last_reset_date |-> IF hasKey THEN apiKeyData.last_reset_date ELSE 0,
       is_limit_reached |-> hasKey /\ currentCount >= limit,
       isLifetimeLimit |-> userData.plan = "free", hasApiKey |-> hasKey]

\* the data of the answer, from the users row, the api_keys row (NoRow when
\* the select returned none or failed), the plan's limit and the date
GetUserApiInfoData(userName, userData, apiKeyData, limit, day) ==
  IF ~apiKeyData.exists \/ apiKeyData.api_key.null
  THEN [name |-> userName, api_key |-> "null", limit |-> limit, count |-> 0,
        remaining |-> limit, plan |-> userData.plan,
        subscription_status |-> userData.subscription_status,
        subscription_id |-> userData.subscription_id, last_reset_date |-> 0,
        is_limit_reached |-> FALSE, isLifetimeLimit |-> userData.plan = "free",
        hasApiKey |-> FALSE]
  ELSE LET currentCount ==
             IF userData.plan = "free" THEN apiKeyData.count
             ELSE IF apiKeyData.last_reset_date # day THEN 0 ELSE apiKeyData.count
       IN  [name |-> userName, api_key |-> maskedApiKey, limit |-> limit,
            count |-> currentCount, remaining |-> limit - currentCount,
            plan |-> userData.plan,
            subscription_status |-> userData.subscription_status,
            subscription_id |-> userData.subscription_id,
            last_reset_date |-> apiKeyData.last_reset_date,
            is_limit_reached |-> currentCount >= limit,
            isLifetimeLimit |-> userData.plan = "free", hasApiKey |-> TRUE]

\* the request arrives: validation of name, then the select on users is awaited
GetInfoStart(p, name) ==
  /\ Free(p)
  /\ ops < MaxOps
  /\ ops' = ops + 1
  /\ LET pr == [IdleProc EXCEPT !.op = "info"]
     IN  procs' = [procs EXCEPT ![p] =
           IF name = "none"
           THEN Respond([pr EXCEPT !.fail = "validation"], 400,
                        [NoResp EXCEPT !.error = "Name is required"])
           ELSE [pr EXCEPT !.pc = "i_user", !.name = name]]
  /\ UNCHANGED <<users, api_keys, today, plain, revoked, generated>>

\* the select on users answers: 404 for a missing user, else the select on
\* api_keys is awaited
GetInfoUser(p) ==
  /\ procs[p].op = "info"
  /\ procs[p].pc = "i_user"
  /\ LET n == procs[p].name
     IN  \/ procs' = [procs EXCEPT ![p] = StoreError(@)]
         \/ procs' = [procs EXCEPT ![p] =
              IF ~users[n].exists
              THEN Respond([@ EXCEPT !.fail = "not_found"], 404,
                           [NoResp EXCEPT !.error = "User not found in database"])
              ELSE [@ EXCEPT !.pc = "i_key",
                             !.read = [userData |-> users[n], apiKeyData |-> NoRow]]]
  /\ UNCHANGED <<users, api_keys, today, ops, plain, revoked, generated>>

\* the select on api_keys answers (a failed select leaves apiKeyData null);
\* the select on plan_limits is awaited
GetInfoKey(p) ==
  /\ procs[p].op = "info"
  /\ procs[p].pc = "i_key"
  /\ \E apiKeyData \in {api_keys[procs[p].name], NoRow} :
       procs' = [procs EXCEPT ![p] =
         [@ EXCEPT !.pc = "i_limit", !.read.apiKeyData = apiKeyData]]
  /\ UNCHANGED <<users, api_keys, today, ops, plain, revoked, generated>>

\* the select on plan_limits answers and the handler responds
GetInfoLimit(p) ==
  /\ procs[p].op = "info"
  /\ procs[p].pc = "i_limit"
  /\ LET read == procs[p].read
     IN  \/ procs' = [procs EXCEPT ![p] = StoreError(@)]
         \/ procs' = [procs EXCEPT ![p] =
              Respond(@, 200,
                [NoResp EXCEPT !.success = TRUE,
                   !.data = GetUserApiInfoData(procs[p].name, read.userData,
                              read.apiKeyData, plan_limits(read.userData.plan), today)])]
  /\ UNCHANGED <<users, api_keys, today, ops, plain, revoked, generated>>

(***************************************************************************)
(* The account page: get-user-api-info on one connection while the keys    *)
(* and the plan of the identity change on the other.                       *)
(***************************************************************************)
InfoU1Configs ==
  {Unknown, FreeNoKey(1), FreeWithKey(KLongA, 1, 1), FreeWithKey(KLongB, FreeLimit, 0),
   ProWithKey("u1", KGen1, ProLimit, 1), ProWithKey("u1", KGen1, 1, 0)}

InitInfo ==
  /\ procs = [p \in Slots |-> IdleProc]
  /\ \E c1 \in InfoU1Configs : StoreIs(c1, Unknown)

NextInfo ==
  \/ \E n \in {"u1", "none"} : GetInfoStart(1, n)
  \/ GetInfoUser(1)
  \/ GetInfoKey(1)
  \/ GetInfoLimit(1)
  \/ \E k \in {Undef, Str(KLongB)} : GenerateStart(2, "u1", k)
  \/ GenerateUser(2)
  \/ GenerateInsertUser(2)
  \/ GenerateKey(2)
  \/ GenerateWrite(2)
  \/ DeleteStart(2, "u1")
  \/ DeleteRead(2)
  \/ DeleteWrite(2)
  \/ HandleUserAuthStart(2, "u1")
  \/ HandleUserAuthUsers(2)
  \/ HandleUserAuthKeys(2)
  \/ CancelStart(2, "u1")
  \/ CancelRead(2)
  \/ CancelPaddle(2)
  \/ CancelWrite(2)
  \/ NextDay

SpecInfo == InitInfo /\ [][NextInfo]_vars

\* the get-user-api-info requests answered with the identity's data
Informed ==
  {p \in DOMAIN procs : /\ procs[p].op = "info"
                        /\ procs[p].pc = "done"
                        /\ procs[p].resp.success}

\* the secrets a row can hold
Secrets == {hashApiKey(k) : k \in {KLongA, KLongB, KGen1} \cup GenKeys}

\* C35: the api_key field of a get-user-api-info answer is null when the
\* identity has no active secret and the fixed mask otherwise, and the answer
\* computed from the rows a request has read is the same whichever secret the
\* api_keys row holds.
C35_SecretNeverShown ==
  /\ \A p \in Informed :
       /\ procs[p].resp.data.api_key \in {"null", maskedApiKey}
       /\ procs[p].resp.data.api_key = "null" <=> ~procs[p].resp.data.hasApiKey
  /\ \A p \in DOMAIN procs :
       (procs[p].op = "info" /\ procs[p].pc = "i_limit") =>
         LET read == procs[p].read
             Answer(row) == GetUserApiInfoData(procs[p].name, read.userData, row,
                              plan_limits(read.userData.plan), today)
         IN  /\ read.apiKeyData.exists /\ ~read.apiKeyData.api_key.null
                   => Answer(read.apiKeyData).api_key = maskedApiKey
             /\ ~(read.apiKeyData.exists /\ ~read.apiKeyData.api_key.null)
                   => Answer(read.apiKeyData).api_key = "null"
             /\ \A s1, s2 \in Secrets :
                  Answer([read.apiKeyData EXCEPT !.api_key = s1]) =
                  Answer([read.apiKeyData EXCEPT !.api_key = s2])

C35_Witness ==
  \E p \in Informed :
    /\ procs[p].resp.data.api_key = maskedApiKey
    /\ plain[procs[p].name] = KLongB
    /\ procs[p].resp.data.plan = "free"
    /\ ops >= 2

\* C36 as stated, for get-user-api-info: the remaining quota an answer
\* reports is never negative.
C36_RemainingNotNegative ==
  \A p \in Informed : procs[p].resp.data.remaining >= 0

(***************************************************************************)
(* POST /api/payment/create-subscription                                   *)
(***************************************************************************)
\* the request arrives: userName and plan are required; the select on users
\* is awaited
CreateSubscriptionStart(p, userName) ==
  /\ Free(p)
  /\ ops < MaxOps
  /\ ops' = ops + 1
  /\ LET pr == [IdleProc EXCEPT !.op = "subscribe"]
     IN  procs' = [procs EXCEPT ![p] =
           IF userName = "none"
           THEN Respond([pr EXCEPT !.fail = "validation"], 400,
                        [NoResp EXCEPT !.error = "Missing required fields"])
           ELSE [pr EXCEPT !.pc = "s_user", !.name = userName]]
  /\ UNCHANGED <<users, api_keys, today, plain, revoked, generated>>

\* the select answers; its error is not looked at, so without a row user is
\* null and user.name throws into the catch block
CreateSubscriptionUser(p) ==
  /\ procs[p].op = "subscribe"
  /\ procs[p].pc = "s_user"
  /\ \/ procs' = [procs EXCEPT ![p] =
            Respond([@ EXCEPT !.fail = "type_error"], 500,
                    [NoResp EXCEPT !.error = "Internal server error"])]
     \/ /\ users[procs[p].name].exists
        /\ procs' = [procs EXCEPT ![p] = [@ EXCEPT !.pc = "s_update"]]
  /\ UNCHANGED <<users, api_keys, today, ops, plain, revoked, generated>>

\* the update subscription_status = 'pending' runs; its error is only logged
CreateSubscriptionUpdate(p) ==
  /\ procs[p].op = "subscribe"
  /\ procs[p].pc = "s_update"
  /\ LET n == procs[p].name
     IN  \/ UNCHANGED users
         \/ users' = [users EXCEPT ![n] =
                        IF @.exists THEN [@ EXCEPT !.subscription_status = "pending"]
                        ELSE @]
  /\ procs' = [procs EXCEPT ![p] = Respond(@, 200, [NoResp EXCEPT !.success = TRUE])]
  /\ UNCHANGED <<api_keys, today, ops, plain, revoked, generated>>

(***************************************************************************)
(* Subscriptions: payment events for one identity on one connection, the   *)
(* requests that write the users table on the other.                       *)
(***************************************************************************)
SubU1Configs ==
  {Unknown, FreeNoKey(1), FreeWithKey(KLongA, 1, 1), ProWithKey("u1", KGen1, 1, 1)}

InitSub ==
  /\ procs = [p \in Slots |-> IdleProc]
  /\ \E c1 \in SubU1Configs : StoreIs(c1, Unknown)

NextSub ==
  \/ \E k \in PlanEvents \cup StatusEvents : WebhookStart(1, k, "u1")
  \/ WebhookStatus(1)
  \/ WebhookUser(1)
  \/ WebhookPlan(1)
  \/ WebhookNull(1)
  \/ WebhookCount(1)
  \/ CancelStart(2, "u1")
  \/ CancelRead(2)
  \/ CancelPaddle(2)
  \/ CancelWrite(2)
  \/ HandleUserAuthStart(2, "u1")
  \/ HandleUserAuthUsers(2)
  \/ HandleUserAuthKeys(2)
  \/ \E n \in {"u1", "none"} : CreateSubscriptionStart(2, n)
  \/ CreateSubscriptionUser(2)
  \/ CreateSubscriptionUpdate(2)
  \/ GenerateStart(2, "u1", Undef)
  \/ GenerateUser(2)
  \/ GenerateInsertUser(2)
  \/ GenerateKey(2)
  \/ GenerateWrite(2)

SpecSub == InitSub /\ [][NextSub]_vars

Lapsed == {"cancelled", "paused", "past_due"}

RevokeU1Configs == {FreeWithKey(KLongA, 0, 1), ProWithKey("u1", KGen1, 0, 1)}

InitRevoke ==
  /\ procs = [p \in Slots |-> IdleProc]
  /\ \E c1 \in RevokeU1Configs : StoreIs(c1, Unknown)

NextRevoke ==
  \/ \E k \in PlanEvents \cup StatusEvents : WebhookStart(1, k, "u1")
  \/ WebhookStatus(1)
  \/ WebhookUser(1)
  \/ WebhookPlan(1)
  \/ WebhookNull(1)
  \/ WebhookCount(1)
  \/ \E k \in {Str(KLongA), Str(KGen1)} : UpdateCountStart(2, k)
  \/ UpdateCountAuth(2)
  \/ UpdateCountRpc(2)

SpecRevoke == InitRevoke /\ [][NextRevoke]_vars

IssuedUnder(k) == IF k \in GenKeys THEN "pro" ELSE "free"

\* C38 as stated: a request is authenticated with a secret only while the
\* identity is on the plan under which the secret was issued.
C38_NoStaleSecret ==
  [][\A p \in DOMAIN procs :
       (AuthStep(p) /\ procs'[p].rec.found) =>
         procs'[p].rec.plan = IssuedUnder(procs[p].key)]_vars

====
